---- MODULE Spec2Model ----
(***************************************************************************)
(* A model of the developer extension of goose                             *)
(* (crates/goose-mcp/src/developer/mod.rs): the text editor (view, write,  *)
(* str_replace, insert, undo_edit) with its per-path undo history and the  *)
(* ignore gate, and the shell tool with its two-stream drain loop.         *)
(*                                                                         *)
(* A text is a sequence of characters; the characters are the one-letter   *)
(* strings "a", "b" and the names "LF" (\n) and "CR" (\r).                 *)
(***************************************************************************)
EXTENDS Integers, Sequences, FiniteSets, TLC

\* ------------------------------------------------------------------ bounds

\* Longest text a file of the model holds (edits that would grow a file past
\* it are left out of the runs).
MaxLen == 4

\* Deepest undo stack of the model (edits on a path whose stack is that deep
\* are left out of the runs).
MaxHist == 2

\* ------------------------------------------------------------ text helpers

LF == "LF"
CR == "CR"

\* pat is found in s at position i.
MatchAt(s, pat, i) ==
    /\ i >= 1
    /\ i + Len(pat) - 1 <= Len(s)
    /\ SubSeq(s, i, i + Len(pat) - 1) = pat

\* s.ends_with(c)
ends_with(s, c) == Len(s) > 0 /\ s[Len(s)] = c

\* str::matches(pat).count(): the matches are found left to right and do not
\* overlap; the empty pattern matches at every character boundary.
RECURSIVE MatchesFrom(_, _, _)
MatchesFrom(s, pat, i) ==
    IF i + Len(pat) - 1 > Len(s) THEN 0
    ELSE IF MatchAt(s, pat, i) THEN 1 + MatchesFrom(s, pat, i + Len(pat))
    ELSE MatchesFrom(s, pat, i + 1)

matches_count(s, pat) ==
    IF pat = << >> THEN Len(s) + 1 ELSE MatchesFrom(s, pat, 1)

\* str::replace(from, to): every non-overlapping match, left to right; the
\* empty pattern puts `to` at every character boundary.
RECURSIVE ReplaceFrom(_, _, _, _)
ReplaceFrom(s, from, to, i) ==
    IF i > Len(s) THEN << >>
    ELSE IF MatchAt(s, from, i) THEN to \o ReplaceFrom(s, from, to, i + Len(from))
    ELSE << s[i] >> \o ReplaceFrom(s, from, to, i + 1)

RECURSIVE Interleave(_, _, _)
Interleave(s, to, i) ==
    IF i > Len(s) THEN << >> ELSE << s[i] >> \o to \o Interleave(s, to, i + 1)

str_replace(s, from, to) ==
    IF from = << >> THEN to \o Interleave(s, to, 1) ELSE ReplaceFrom(s, from, to, 1)

\* normalize_line_endings on a Unix host: CRLF becomes LF.
normalize_line_endings(s) == str_replace(s, << CR, LF >>, << LF >>)

\* The pieces of s[a..b] that its LFs separate, the LFs cut off: one piece
\* more than there are LFs (halving keeps the nesting shallow on long texts).
RECURSIVE pieces(_, _, _)
pieces(s, a, b) ==
    IF a > b THEN << << >> >>
    ELSE IF a = b THEN (IF s[a] = LF THEN << << >>, << >> >> ELSE << << s[a] >> >>)
    ELSE LET m == (a + b) \div 2
             x == pieces(s, a, m)
             y == pieces(s, m + 1, b)
         IN  SubSeq(x, 1, Len(x) - 1) \o << x[Len(x)] \o y[1] >> \o SubSeq(y, 2, Len(y))

\* A line that ended in LF, without a CR just before that LF.
strip_cr(line) == IF ends_with(line, CR) THEN SubSeq(line, 1, Len(line) - 1) ELSE line

\* str::lines(): split after each LF; a line's LF and a CR before that LF are
\* cut off; a last line without LF is kept as it is; no line after a final LF.
lines(s) ==
    LET ps == pieces(s, 1, Len(s))
        n == Len(ps)
    IN  [i \in 1..(n - 1) |-> strip_cr(ps[i])]
        \o (IF ps[n] = << >> THEN << >> ELSE << ps[n] >>)

\* [String]::join("\n") of ls[a..b]
RECURSIVE JoinRange(_, _, _)
JoinRange(ls, a, b) ==
    IF a > b THEN << >>
    ELSE IF a = b THEN ls[a]
    ELSE LET m == (a + b) \div 2
         IN  JoinRange(ls, a, m) \o << LF >> \o JoinRange(ls, m + 1, b)

join(ls) == JoinRange(ls, 1, Len(ls))

\* ------------------------------------------------------------------- paths

\* A path is its sequence of components; an absolute path starts at "/".
PathA == << "/", "a.txt" >>
PathSecret == << "/", "secret.txt" >>
PathRel == << "a.txt" >>
PathRelSecret == << "secret.txt" >>

\* The path strings a call may carry, and the files they can resolve to.
RawPaths == { PathA, PathSecret, PathRel, PathRelSecret }
AbsPaths == { PathA, PathSecret }

\* expand_path: a leading "~" becomes the home directory.
expand_path(path_str) ==
    IF Len(path_str) > 0 /\ path_str[1] = "~"
    THEN << "/", "home" >> \o Tail(path_str)
    ELSE path_str

is_absolute_path(p) == Len(p) > 0 /\ p[1] = "/"

\* std::env::current_dir() of the runs of the model
cwd == << "/" >>

\* Path::join: an absolute path replaces the base.
path_join(base, p) == IF Len(p) > 0 /\ p[1] = "/" THEN p ELSE base \o Tail(<< "/" >> \o p)

\* ------------------------------------------------------------ ignore rules

\* A file holds at most MaxRules rules.
MaxRules == 1

\* The file names of the model, and the names each glob of the model matches.
Names ==
    { ".env", ".env.local", "secrets.txt", "test.log", "normal.txt", "secret.txt",
      "a.txt" }

glob(pattern) ==
    CASE pattern = "**/.env" -> { ".env" }
      [] pattern = "**/.env.*" -> { ".env.local" }
      [] pattern = "**/secrets.*" -> { "secrets.txt" }
      [] pattern = ".env" -> { ".env" }
      [] pattern = "*.log" -> { "test.log" }
      [] pattern = "secret.txt" -> { "secret.txt" }

\* A line of an ignore file: a glob, or "!" and a glob.
Rule(pattern, negated) == [pattern |-> pattern, negated |-> negated]

\* An ignore file: not there, or its lines.
Absent == [exists |-> FALSE, rules |-> << >>]
Lines(rules) == [exists |-> TRUE, rules |-> rules]
is_file(f) == f.exists

\* Gitignore::matched(path, false).is_ignore(): the last rule that matches
\* decides, and it ignores unless it is a negation.
is_ignore(rules, name) ==
    LET hits == { i \in 1..Len(rules) : name \in glob(rules[i].pattern) }
    IN  /\ hits # { }
        /\ ~rules[CHOOSE i \in hits : \A j \in hits : j <= i].negated

\* has_ignore_file when only the files of the project set it.
has_ignore_file_local(rf) ==
    is_file(rf.local) \/ is_file(rf.gitignore)

\* has_ignore_file at the end of new.
has_ignore_file(rf) ==
    is_file(rf.global) \/ is_file(rf.local) \/ is_file(rf.gitignore)

\* .gitignore is read whether .gooseignore is there or not.
reads_gitignore_always(rf) == is_file(rf.gitignore)

\* The else branch of the local .gooseignore: .gitignore is the fallback.
reads_gitignore(rf) == ~is_file(rf.local) /\ is_file(rf.gitignore)

default_rules ==
    << Rule("**/.env", FALSE), Rule("**/.env.*", FALSE), Rule("**/secrets.*", FALSE) >>

\* What new adds to the GitignoreBuilder, in order.
builder(rf) ==
    (IF is_file(rf.global) THEN rf.global.rules ELSE << >>)
    \o (IF is_file(rf.local) THEN rf.local.rules ELSE << >>)
    \o (IF reads_gitignore(rf) THEN rf.gitignore.rules ELSE << >>)
    \o (IF ~has_ignore_file(rf) THEN default_rules ELSE << >>)

\* DeveloperRouter::new, as far as ignore_patterns goes: the names the built
\* rule set ignores.
new(rf) == { name \in Names : is_ignore(builder(rf), name) }

\* The files of the tests of the editor: a local .gooseignore with one line.
TestRuleFiles ==
    [global |-> Absent, local |-> Lines(<< Rule("secret.txt", FALSE) >>),
     gitignore |-> Absent]

\* ------------------------------------------------------------------- state

VARIABLES
    fs,               \* the files: path -> [exists, content]
    file_history,     \* DeveloperRouter.file_history: path -> stack of contents
    rule_files,       \* the ignore files on disk when the router was built
    ignore_patterns,  \* DeveloperRouter.ignore_patterns: the ignored file names
    editor_model,     \* DeveloperRouter.editor_model is Some(..)
    last,             \* the last text_editor call: its arguments, what it found, what it returned
    edits,            \* per path, the contents before each successful str_replace/insert
                      \* that no undo_edit has taken back yet (most recent last)
    edited,           \* the paths a write, str_replace or insert has succeeded on
    sh,               \* one invocation of the shell tool (see ShellIdle below)
    tasks             \* the text_editor invocations running at once (see TasksIdle below)

editor_vars ==
    << fs, file_history, rule_files, ignore_patterns, editor_model, last, edits, edited >>
vars == << editor_vars, sh, tasks >>

\* A file: content is its text; of a long text, content is what follows its
\* first elided characters, which are on its first line; wide is the number of
\* bytes its UTF-8 encoding takes beyond one per character.
NoFile == [exists |-> FALSE, content |-> << >>, elided |-> 0, wide |-> 0]
File(c) == [exists |-> TRUE, content |-> c, elided |-> 0, wide |-> 0]

\* Path::exists / Path::is_file of a path the model holds.
path_exists(p) == p \in DOMAIN fs /\ fs[p].exists

\* is_ignored: the rule set of the model ignores by file name.
is_ignored(p) == Len(p) > 0 /\ p[Len(p)] \in ignore_patterns

\* resolve_path: Ok(path) for an absolute path, Err(InvalidParameters) otherwise.
resolve_path(path_str) ==
    LET expanded == expand_path(path_str)
    IN  IF is_absolute_path(expanded)
        THEN [ok |-> TRUE, path |-> expanded, suggestion |-> path_join(cwd, expanded)]
        ELSE [ok |-> FALSE, path |-> expanded, suggestion |-> path_join(cwd, expanded)]

\* What a handler did: the result kind, which message, the file and the stack
\* of its path afterwards, the file system calls it made, and what it showed.
Outcome(result, msg, file, hist, access, out) ==
    [result |-> result, msg |-> msg, file |-> file, hist |-> hist,
     access |-> access, out |-> out]

\* ----------------------------------------------------------- the handlers

\* save_file_history that pushes an entry without reading the file.
save_file_history_unread(file, hist) == Append(hist, << >>)

\* save_file_history: push the file's content, or "" when there is no file.
save_file_history(file, hist) ==
    Append(hist, IF file.exists THEN file.content ELSE << >>)

MAX_CHAR_COUNT == 400000
MAX_FILE_SIZE == 400 * 1024

\* What `as usize` wraps a negative i64 around: 2^64 in the program, 2^30 in
\* the model, whose integers have 32 bits; either is above every line count.
USIZE_WRAP == 2 ^ 30

\* v as usize, for an i64 v
as_usize(v) == IF v < 0 THEN USIZE_WRAP + v ELSE v

\* The view_range text_editor hands on: None unless the array has two
\* elements, the first of them cast to usize.
view_range_of(arr) ==
    IF Len(arr) = 2 THEN << as_usize(arr[1]), arr[2] >> ELSE << >>

\* "{n}: {line}" of text_editor_view and of the insert snippet.
Numbered(n, line) == [n |-> n, line |-> line]

\* content.chars().count()
chars_count(file) == file.elided + Len(file.content)

\* A size taken from the characters of the text.
file_size_in_chars(file) == chars_count(file)

\* std::fs::metadata(path).len(): the bytes of the file.
file_size(file) == chars_count(file) + file.wide

\* text_editor_view; view_range is << >> (None) or << start, end >>.
text_editor_view(file, hist, view_range) ==
    IF ~file.exists
    THEN Outcome("ExecutionError", "not_a_file", file, hist, {"stat"}, << >>)
    ELSE IF file_size(file) > MAX_FILE_SIZE
    THEN Outcome("ExecutionError", "too_large", file, hist, {"stat"}, << >>)
    ELSE IF chars_count(file) > MAX_CHAR_COUNT
    THEN Outcome("ExecutionError", "too_many_characters", file, hist, {"stat", "read"}, << >>)
    ELSE
    LET ls == lines(file.content)
        total_lines == Len(ls)
        ranged == view_range # << >>
        start_line == IF ranged THEN view_range[1] ELSE 1
        end_line == IF ranged THEN view_range[2] ELSE -1
        start_idx == IF ranged THEN (IF start_line > 0 THEN start_line - 1 ELSE 0) ELSE 0
        end_idx == IF ~ranged \/ end_line = -1 THEN total_lines
                   ELSE IF as_usize(end_line) < total_lines THEN as_usize(end_line)
                   ELSE total_lines
    IN  IF ranged /\ start_idx >= total_lines
        THEN Outcome("InvalidParameters", "beyond_end", file, hist, {"stat", "read"}, << >>)
        ELSE IF ranged /\ start_idx >= end_idx
        THEN Outcome("InvalidParameters", "start_not_before_end", file, hist, {"stat", "read"}, << >>)
        ELSE Outcome("Ok", "view", file, hist, {"stat", "read"},
                     [i \in 1..(end_idx - start_idx) |->
                         Numbered(start_idx + i, ls[start_idx + i])])

\* A write that leaves the end of the text as it is.
push_newline_never(text) == text

\* if !normalized_text.ends_with('\n') { normalized_text.push('\n') }
push_newline(text) == IF ends_with(text, LF) THEN text ELSE Append(text, LF)

\* text_editor_write
text_editor_write(file, hist, file_text) ==
    LET normalized_text == push_newline(normalize_line_endings(file_text))
    IN  Outcome("Ok", "wrote", File(normalized_text), hist, {"write"}, << >>)

\* An edit that takes the file for granted.
exists_assumed(file) == TRUE

\* path.exists() of text_editor_replace and text_editor_insert
exists_on_disk(file) == file.exists

\* What editor.edit_code returned: Err, or Ok(updated_content).
EditErr == [ok |-> FALSE, content |-> << >>]
EditOk(c) == [ok |-> TRUE, content |-> c]

\* The literal path of text_editor_replace (after the editor model, if any);
\* hist is the stack as the editor-model path left it.
replace_literal(file, hist, old_str, new_str, access) ==
    LET content == file.content
    IN  IF matches_count(content, old_str) > 1
        THEN Outcome("InvalidParameters", "multiple", file, hist, access, << >>)
        ELSE IF matches_count(content, old_str) = 0
        THEN Outcome("InvalidParameters", "zero", file, hist, access, << >>)
        ELSE LET new_content == str_replace(content, old_str, new_str)
             IN  Outcome("Ok", "edited_snippet",
                         File(normalize_line_endings(new_content)),
                         save_file_history(file, hist),
                         access \cup {"write"}, << >>)

\* An Err arm that returns the failure of the editor model to the caller.
on_edit_error_returned(file, saved, old_str, new_str) ==
    Outcome("ExecutionError", "editor_failed", file, saved, {"stat", "read"}, << >>)

\* The Err arm of the match on edit_code: fall through to the literal path,
\* with the history as the editor-model path left it.
on_edit_error(file, saved, old_str, new_str) ==
    replace_literal(file, saved, old_str, new_str, {"stat", "read"})

\* An Ok arm that confirms the edit and leaves the file as it is.
on_edit_ok_unwritten(file, saved, edit) ==
    Outcome("Ok", "edited", file, saved, {"stat", "read"}, << >>)

\* The Ok arm of the match on edit_code: the content the editor model returned
\* is normalized and written, and a short confirmation is returned.
on_edit_ok(file, saved, edit) ==
    Outcome("Ok", "edited", File(normalize_line_endings(edit.content)),
            saved, {"stat", "read", "write"}, << >>)

\* text_editor_replace; edit is what the editor model answers when there is one.
text_editor_replace(file, hist, old_str, new_str, has_editor, edit) ==
    IF ~exists_on_disk(file)
    THEN Outcome("InvalidParameters", "not_exist", file, hist, {"stat"}, << >>)
    ELSE IF has_editor
    THEN LET saved == save_file_history(file, hist)
         IN  IF edit.ok
             THEN on_edit_ok(file, saved, edit)
             ELSE on_edit_error(file, saved, old_str, new_str)
    ELSE replace_literal(file, hist, old_str, new_str, {"stat", "read"})

\* The new_lines of text_editor_insert.
RECURSIVE InsertLines(_, _, _, _)
InsertLines(ls, insert_line, new_str, i) ==
    IF i >= Len(ls)
    THEN (IF insert_line = Len(ls) THEN << new_str >> ELSE << >>)
    ELSE (IF i = insert_line THEN << new_str >> ELSE << >>)
         \o << ls[i + 1] >> \o InsertLines(ls, insert_line, new_str, i + 1)

SNIPPET_LINES == 4

\* The snippet of text_editor_insert: the lines of new_lines around the inserted
\* one, each with the number put before it.
insert_snippet(new_lines, insert_line) ==
    LET insertion_line == insert_line + 1
        start_line == IF insertion_line > SNIPPET_LINES
                      THEN insertion_line - SNIPPET_LINES ELSE 0
        end_line == IF insertion_line + SNIPPET_LINES < Len(new_lines)
                    THEN insertion_line + SNIPPET_LINES ELSE Len(new_lines)
        from == IF start_line > 0 THEN start_line - 1 ELSE 0
    IN  [i \in 1..(end_line - from) |-> Numbered(start_line + (i - 1), new_lines[from + i])]

\* text_editor_insert
text_editor_insert(file, hist, insert_line, new_str) ==
    IF ~exists_on_disk(file)
    THEN Outcome("InvalidParameters", "not_exist", file, hist, {"stat"}, << >>)
    ELSE
    LET content == file.content
        saved == save_file_history(file, hist)
        ls == lines(content)
        total_lines == Len(ls)
    IN  IF insert_line > total_lines
        THEN Outcome("InvalidParameters", "beyond_end", file, saved, {"stat", "read"}, << >>)
        ELSE
        LET new_lines == InsertLines(ls, insert_line, new_str, 0)
            normalized_content == normalize_line_endings(join(new_lines))
            final_content == IF ~ends_with(normalized_content, LF)
                             THEN Append(normalized_content, LF)
                             ELSE normalized_content
        IN  Outcome("Ok", "inserted", File(final_content), saved,
                    {"stat", "read", "write"}, insert_snippet(new_lines, insert_line))

\* text_editor_undo
text_editor_undo(file, hist) ==
    IF Len(hist) > 0
    THEN Outcome("Ok", "undid", File(hist[Len(hist)]), SubSeq(hist, 1, Len(hist) - 1),
                 {"write"}, << >>)
    ELSE Outcome("InvalidParameters", "no_history", file, hist, {}, << >>)

\* ------------------------------------------------------- the inputs of a run

\* What the file of PathA holds when the router starts (none, or a text).
InitFiles == { NoFile, File(<< "a", LF >>) }

OldStrs == { << "a" >>, << "b" >> }
NewStrs == { << "b" >> }
FileTexts == { << "a" >> }
InsertLineNos == { 0, 3 }
InsertStrs == { << "b" >> }
ViewRanges == { << >>, << 1, -1 >>, << 2, 1 >>, << 3, 4 >> }
\* What the editor model may answer.
EditAnswers == { EditErr, EditOk(<< "b", LF >>) }

\* The parameters of one text_editor call; missing names the parameters the
\* argument bag does not hold, and write_fails tells whether std::fs::write
\* fails during the call.
NoArgs ==
    [old |-> << >>, new |-> << >>, line |-> 0, range |-> << >>, edit |-> EditErr,
     missing |-> {}, write_fails |-> FALSE]

\* ------------------------------------------------------------- text_editor

\* The ok_or of a parameter the argument bag does not hold.
missing_parameter(name, file, hist) ==
    Outcome("InvalidParameters", "missing_" \o name, file, hist, {}, << >>)

\* The last arm of the match, reporting the unknown command as a failure of
\* the execution.
unknown_command_as_execution(file, hist) ==
    Outcome("ExecutionError", "unknown_command", file, hist, {}, << >>)

\* The last arm of the match: a command text_editor does not know.
unknown_command(file, hist) ==
    Outcome("InvalidParameters", "unknown_command", file, hist, {}, << >>)

\* The match of text_editor on the command.
Dispatch(command, file, hist, a) ==
    CASE command = "view" -> text_editor_view(file, hist, view_range_of(a.range))
      [] command = "write" ->
            IF "file_text" \in a.missing THEN missing_parameter("file_text", file, hist)
            ELSE text_editor_write(file, hist, a.new)
      [] command \in { "str_replace", "edit_file" } ->
            IF "old_str" \in a.missing THEN missing_parameter("old_str", file, hist)
            ELSE IF "new_str" \in a.missing THEN missing_parameter("new_str", file, hist)
            ELSE text_editor_replace(file, hist, a.old, a.new, editor_model, a.edit)
      [] command = "insert" ->
            IF "insert_line" \in a.missing
            THEN missing_parameter("insert_line", file, hist)
            ELSE IF "new_str" \in a.missing THEN missing_parameter("new_str", file, hist)
            ELSE text_editor_insert(file, hist, a.line, a.new)
      [] command = "undo_edit" -> text_editor_undo(file, hist)
      [] OTHER -> unknown_command(file, hist)

\* std::fs::write(..).map_err(ExecutionError)? at the end of a handler: when
\* the write fails the file stays as it was, and what the handler did before
\* the write stays done.
fs_write(o, file, write_fails) ==
    IF write_fails /\ "write" \in o.access
    THEN [o EXCEPT !.result = "ExecutionError", !.msg = "write_failed", !.file = file,
                   !.out = << >>]
    ELSE o

\* text_editor asking the gate about the path as given, before resolve_path.
Gate_ignored_first(path_str) ==
    IF is_ignored(expand_path(path_str)) THEN "ignored"
    ELSE IF ~resolve_path(path_str).ok THEN "not_absolute"
    ELSE "pass"

\* text_editor without the is_ignored check.
Gate_unchecked(path_str) ==
    IF ~resolve_path(path_str).ok THEN "not_absolute" ELSE "pass"

\* text_editor, up to the match: resolve the path, then ask the gate.
Gate(path_str) ==
    LET r == resolve_path(path_str)
    IN  IF ~r.ok THEN "not_absolute"
        ELSE IF is_ignored(r.path) THEN "ignored"
        ELSE "pass"

\* The stack of contents the successful edits on a path are expected to leave
\* for undo_edit.
NextEdits(command, o, file, e) ==
    IF o.result # "Ok" THEN e
    ELSE IF command \in { "str_replace", "edit_file", "insert" }
    THEN Append(e, file.content)
    ELSE IF command = "undo_edit" /\ Len(e) > 0 THEN SubSeq(e, 1, Len(e) - 1)
    ELSE e

\* A result of one content item that names no audience, whatever the handler.
content_items_untagged(msg) == << "none" >>

\* The audiences of the content items of a successful result, in order; "none"
\* is an item built without with_audience.
content_items(msg) ==
    CASE msg \in { "glob", "view", "wrote", "edited", "edited_snippet", "inserted",
                   "list_windows" } -> << "assistant", "user" >>
      [] msg = "undid" -> << "none" >>
      [] msg \in { "image_processor", "screen_capture" } -> << "assistant", "none" >>
      [] OTHER -> << >>

Record(command, path_str, a, gate, o) ==
    [op |-> command, path |-> path_str, gate |-> gate,
     old |-> a.old, new |-> a.new, line |-> a.line, range |-> a.range, edit |-> a.edit,
     result |-> o.result, msg |-> o.msg, access |-> o.access, out |-> o.out,
     items |-> IF o.result = "Ok" THEN content_items(o.msg) ELSE << >>]

\* A history that is one stack for all the paths.
entry_shared(history, path, stack) == [q \in DOMAIN history |-> stack]

\* history.entry(path.clone()): the stack of the path, and of no other.
entry(history, path, stack) == [history EXCEPT ![path] = stack]

\* One call of text_editor.
TextEditor(command, path_str, a) ==
    LET gate == Gate(path_str)
        p == resolve_path(path_str).path
    IN  IF gate = "not_absolute"
        THEN /\ last' = Record(command, path_str, a, gate,
                    Outcome("InvalidParameters", "not_absolute", NoFile, << >>, {},
                            resolve_path(path_str).suggestion))
             /\ UNCHANGED << fs, file_history, rule_files, ignore_patterns, editor_model, edits,
                            edited, sh, tasks >>
        ELSE IF gate = "ignored"
        THEN /\ last' = Record(command, path_str, a, gate,
                    Outcome("ExecutionError", "ignored", NoFile, << >>, {}, << >>))
             /\ UNCHANGED << fs, file_history, rule_files, ignore_patterns, editor_model, edits,
                            edited, sh, tasks >>
        ELSE LET o == fs_write(Dispatch(command, fs[p], file_history[p], a), fs[p],
                               a.write_fails)
             IN  /\ Len(o.file.content) <= MaxLen
                 /\ Len(o.hist) <= MaxHist
                 /\ fs' = [fs EXCEPT ![p] = o.file]
                 /\ file_history' = entry(file_history, p, o.hist)
                 /\ edits' = [edits EXCEPT ![p] = NextEdits(command, o, fs[p], edits[p])]
                 /\ edited' = IF /\ o.result = "Ok"
                                 /\ command \in { "write", "str_replace", "edit_file",
                                                  "insert" }
                              THEN edited \cup { p } ELSE edited
                 /\ last' = Record(command, path_str, a, gate, o)
                 /\ UNCHANGED << rule_files, ignore_patterns, editor_model, sh, tasks >>

View(path_str, range) ==
    TextEditor("view", path_str, [NoArgs EXCEPT !.range = range])

Write(path_str, file_text) ==
    TextEditor("write", path_str, [NoArgs EXCEPT !.new = file_text])

StrReplace(path_str, old_str, new_str, edit) ==
    TextEditor("str_replace", path_str,
               [NoArgs EXCEPT !.old = old_str, !.new = new_str, !.edit = edit])

Insert(path_str, insert_line, new_str) ==
    TextEditor("insert", path_str, [NoArgs EXCEPT !.line = insert_line, !.new = new_str])

UndoEdit(path_str) ==
    TextEditor("undo_edit", path_str, NoArgs)

Streams == { "stdout", "stderr" }

\* No shell invocation yet: the command not read, no child, nothing drained;
\* tmp is what the temporary file will answer to this invocation; wrote is
\* what the child has written to each stream, and pushed the lines appended to
\* combined_output with the stream of each.
ShellIdle ==
    [pc |-> "start", cmd |-> << >>, result |-> [kind |-> "none"],
     child |-> "none", script |-> << >>,
     pipe |-> [s \in Streams |-> << >>], rbuf |-> [s \in Streams |-> << >>],
     buf |-> [s \in Streams |-> << >>], nread |-> [s \in Streams |-> 0],
     done |-> [s \in Streams |-> FALSE], combined_output |-> << >>,
     drain_pc |-> "idle", chan |-> 0, rx_open |-> TRUE, dropped |-> FALSE,
     stalled |-> FALSE, ref_output |-> << >>, elided |-> 0, tmp |-> "ok",
     wrote |-> [s \in Streams |-> << >>], pushed |-> << >>]

\* The state before the first call.
NoCall ==
    Record("none", PathA, NoArgs, "pass", Outcome("Ok", "none", NoFile, << >>, {}, << >>))

\* An Option: None, or Some(v).
None == << >>
Some(v) == << v >>

\* The invocations that call_tool has dispatched and that run at once, each on
\* its own clone of the router.
Tasks == { "t1", "t2" }

\* No invocation in flight. Of each invocation: its call, the step it is at,
\* the file as it read it, the stack it is about to store and its result;
\* mutex is the holder of the lock of file_history. The rest is bookkeeping:
\* base, pushes and pops count the entries of each path at the start, pushed
\* and popped; writes lists the edits written (the file before, the content
\* the edit was computed from, the file after); overlap tells that an
\* invocation started while another was running.
TasksIdle ==
    [call |-> [t \in Tasks |-> [command |-> "none", path |-> PathA, a |-> NoArgs]],
     pc |-> [t \in Tasks |-> "done"],
     seen |-> [t \in Tasks |-> NoFile],
     stack |-> [t \in Tasks |-> << >>],
     result |-> [t \in Tasks |-> "none"],
     mutex |-> None,
     base |-> [p \in AbsPaths |-> 0],
     pushes |-> [p \in AbsPaths |-> 0],
     pops |-> [p \in AbsPaths |-> 0],
     writes |-> << >>,
     overlap |-> FALSE]

\* The router as the tests build it (an ignore rule for secret.txt, an empty
\* history), with or without an editor model, over the files of the run.
InitRouter(files) ==
    /\ fs \in { [p \in AbsPaths |-> IF p = PathA THEN f ELSE File(<< "a", LF >>)] :
                f \in files }
    /\ file_history = [p \in AbsPaths |-> << >>]
    /\ rule_files = TestRuleFiles
    /\ ignore_patterns = new(TestRuleFiles)
    /\ editor_model \in BOOLEAN
    /\ edits = [p \in AbsPaths |-> << >>]
    /\ edited = { }
    /\ last = NoCall
    /\ tasks = TasksIdle
    /\ sh = ShellIdle

Init == InitRouter(InitFiles)

\* What edit_code can answer in this run: nothing is asked without an editor model.
Answers == IF editor_model THEN EditAnswers ELSE { EditErr }

DoView == \E path_str \in RawPaths, range \in ViewRanges : View(path_str, range)

DoWrite == \E path_str \in RawPaths, file_text \in FileTexts : Write(path_str, file_text)

DoStrReplace ==
    \E path_str \in RawPaths, old_str \in OldStrs, new_str \in NewStrs, edit \in Answers :
        StrReplace(path_str, old_str, new_str, edit)

DoInsert ==
    \E path_str \in RawPaths, insert_line \in InsertLineNos, new_str \in InsertStrs :
        Insert(path_str, insert_line, new_str)

DoUndoEdit == \E path_str \in RawPaths : UndoEdit(path_str)

Next == DoView \/ DoWrite \/ DoStrReplace \/ DoInsert \/ DoUndoEdit

Spec == Init /\ [][Next]_vars

\* ---------------------------------------------------------- the shell tool

\* The pipe of each of the child's streams holds at most PipeCap characters.
PipeCap == 1

\* The notification channel holds at most ChanCap events.
ChanCap == 1

\* The child writes at most MaxScript characters.
MaxScript == 3

\* The command has at most MaxTokens tokens.
MaxTokens == 3

\* A token of the command: whether it starts with '-', and the path it names.
Token(dash, path) == [dash |-> dash, path |-> path]
PathGone == << "/", "gone", "secret.txt" >>
Tokens ==
    { Token(FALSE, PathA), Token(FALSE, PathSecret), Token(TRUE, PathSecret),
      Token(FALSE, PathGone) }

\* command.split_whitespace().collect()
Commands == UNION { [1..k -> Tokens] : k \in 0..MaxTokens }

\* What the child does: it writes these characters, each to its stream, in
\* this order, and waits whenever the pipe it writes to is full.
Items == [stream : Streams, ch : { "x", LF }]
Scripts(n) == UNION { [1..k -> Items] : k \in 0..n }

\* The check of bash on the arguments: the first token after the command name
\* that does not start with '-', exists and is ignored, or 0. cmd_parts[1..]
\* of an empty cmd_parts is out of range: the slice panics.
RECURSIVE RestrictedFrom(_, _)
RestrictedFrom(cmd_parts, i) ==
    IF i > Len(cmd_parts) THEN 0
    ELSE IF cmd_parts[i].dash THEN RestrictedFrom(cmd_parts, i + 1)
    ELSE IF ~path_exists(cmd_parts[i].path) THEN RestrictedFrom(cmd_parts, i + 1)
    ELSE IF is_ignored(cmd_parts[i].path) THEN i
    ELSE RestrictedFrom(cmd_parts, i + 1)

scan(cmd_parts) ==
    IF Len(cmd_parts) < 1 THEN [panic |-> TRUE, restricted |-> 0]
    ELSE [panic |-> FALSE, restricted |-> RestrictedFrom(cmd_parts, 2)]

\* A Command left at its default: the child outlives its handle.
kill_on_drop_unset == FALSE

\* Command::kill_on_drop(true)
kill_on_drop == TRUE

LINE_LIMIT == 100

saturating_sub(a, b) == IF a > b THEN a - b ELSE 0

\* The excerpt starting one line too early.
tail_start_early(line_count) == saturating_sub(line_count, LINE_LIMIT + 1)

\* lines.len().saturating_sub(100)
tail_start(line_count) == saturating_sub(line_count, LINE_LIMIT)

\* A limit that 100 lines already reach.
truncates_from_limit(line_count) == line_count >= LINE_LIMIT

\* line_count > 100
truncates(line_count) == line_count > LINE_LIMIT

\* The path of the temporary file that is kept.
TmpPath == << "/", "tmp", "output" >>

\* What the temporary file answers: it is created, written and kept, or one
\* of NamedTempFile::new, std::fs::write and keep fails.
TmpAnswers == { "ok", "create_failed", "write_failed", "persist_failed" }

\* A failure of the temporary file that is passed over.
tmp_failed_never(tmp) == FALSE

\* The map_err(..)? of the three calls on the temporary file.
tmp_failed(tmp) == tmp # "ok"

\* process_shell_output: the two views of the output, and the temporary file
\* written when the output has more than 100 lines (tmp_file: the contents of
\* the files left behind; a NamedTempFile that is not kept is removed).
process_shell_output(output_str, tmp) ==
    LET ls == lines(output_str)
        line_count == Len(ls)
        start == tail_start(line_count)
        last_100_lines_str == join(SubSeq(ls, start + 1, line_count))
    IN  IF truncates(line_count) /\ tmp_failed(tmp)
        THEN [kind |-> "ExecutionError", msg |-> tmp, tmp_file |-> << >>]
        ELSE IF truncates(line_count)
        THEN [kind |-> "Ok",
              final_output |-> [line_count |-> line_count, path |-> TmpPath,
                                truncated |-> last_100_lines_str],
              user_output |-> [marker |-> "...", truncated |-> last_100_lines_str],
              tmp_file |-> << output_str >>]
        ELSE [kind |-> "Ok", final_output |-> output_str, user_output |-> output_str,
              tmp_file |-> << >>]

\* A ceiling that 400,000 characters already reach.
over_ceiling_from_max(char_count) == char_count >= MAX_CHAR_COUNT

\* char_count > MAX_CHAR_COUNT
over_ceiling(char_count) == char_count > MAX_CHAR_COUNT

\* An output that starts with `elided` characters other than '\n' and goes on
\* with output_str: the text the model does not hold character by character.
LongText(elided, output_str) == [elided |-> elided, text |-> output_str]

\* process_shell_output of such an output of fewer than 100 lines: the long
\* start only makes its first line longer, so both views are the output.
process_long_output(elided, output_str) ==
    [kind |-> "Ok", final_output |-> LongText(elided, output_str),
     user_output |-> LongText(elided, output_str), tmp_file |-> << >>]

\* The end of bash: the character ceiling, then process_shell_output.
finish(elided, output_str, tmp) ==
    IF over_ceiling(elided + Len(output_str))
    THEN [kind |-> "ExecutionError", msg |-> "too_many_characters",
          char_count |-> elided + Len(output_str), tmp_file |-> << >>]
    ELSE IF elided = 0 THEN process_shell_output(output_str, tmp)
    ELSE process_long_output(elided, output_str)

\* bash up to the spawn: the check of the arguments, then the child with its
\* two pipes and the task that drains them.
BashStart ==
    /\ sh.pc = "start"
    /\ LET c == scan(sh.cmd)
       IN  sh' = IF c.panic THEN [sh EXCEPT !.pc = "panicked"]
                 ELSE IF c.restricted > 0
                 THEN [sh EXCEPT !.pc = "returned",
                                 !.result = [kind |-> "ExecutionError", msg |-> "restricted",
                                             arg |-> sh.cmd[c.restricted]]]
                 ELSE [sh EXCEPT !.pc = "waiting", !.child = "running",
                                 !.drain_pc = "loop"]
    /\ UNCHANGED << editor_vars, tasks >>

\* The child's pipes are closed at its end once it has exited or was killed.
Closed == sh.child \in { "exited", "killed" }

\* The child's next write is to stream s, whose pipe holds n characters and is
\* full: the child waits for the reader.
MustWait(script, s, n) ==
    Len(script) > 0 /\ Head(script).stream = s /\ n = PipeCap

\* The child writes the next character of its script, if the pipe has room.
ChildWrite ==
    /\ sh.child = "running"
    /\ Len(sh.script) > 0
    /\ LET it == Head(sh.script)
       IN  /\ Len(sh.pipe[it.stream]) < PipeCap
           /\ sh' = [sh EXCEPT !.script = Tail(sh.script),
                               !.pipe[it.stream] = Append(@, it.ch),
                               !.wrote[it.stream] = Append(@, it.ch),
                               !.stalled = @ \/ MustWait(Tail(sh.script), it.stream,
                                                         Len(sh.pipe[it.stream]) + 1)]
    /\ UNCHANGED << editor_vars, tasks >>

\* The child has written everything: it exits, which closes both pipes.
ChildExit ==
    /\ sh.child = "running"
    /\ Len(sh.script) = 0
    /\ sh' = [sh EXCEPT !.child = "exited"]
    /\ UNCHANGED << editor_vars, tasks >>

HasLF(t) == \E i \in 1..Len(t) : t[i] = LF
FirstLF(t) == CHOOSE i \in 1..Len(t) : t[i] = LF /\ \A j \in 1..(i - 1) : t[j] # LF

\* One poll of read_until(b'\n', buf) on a BufReader: the reader's own buffer
\* first, then what the pipe holds; ready at a '\n' or at the end of the
\* stream, pending otherwise. got is what the poll appended to buf.
read_until(rbuf, pipe, eof) ==
    IF HasLF(rbuf)
    THEN [ready |-> TRUE, got |-> SubSeq(rbuf, 1, FirstLF(rbuf)),
          rbuf |-> SubSeq(rbuf, FirstLF(rbuf) + 1, Len(rbuf)), pipe |-> pipe]
    ELSE LET all == rbuf \o pipe
         IN  IF HasLF(all)
             THEN [ready |-> TRUE, got |-> SubSeq(all, 1, FirstLF(all)),
                   rbuf |-> SubSeq(all, FirstLF(all) + 1, Len(all)), pipe |-> << >>]
             ELSE [ready |-> eof, got |-> all, rbuf |-> << >>, pipe |-> << >>]

\* notifier.try_send: the event is taken if the receiver is there and the
\* channel has room.
try_send(chan, rx_open) == rx_open /\ chan < ChanCap

\* The drain loop after a line was read, with try_send's result thrown away.
after_line_if_sent(combined_output, line, sent) ==
    IF sent THEN combined_output \o line ELSE combined_output

\* The drain loop after a line was read: try_send(..).ok(), then push_str.
after_line(combined_output, line, sent) == combined_output \o line

\* A select! that reads stderr only once stdout is done.
branch_enabled_in_turn(s) ==
    ~sh.done[s] /\ (s = "stdout" \/ sh.done["stdout"])

\* The precondition of a branch of the select!: `if !stdout_done`.
branch_enabled(s) == ~sh.done[s]

\* A loop that ends as soon as one stream is done.
loop_ends_at_first(done) == \E t \in Streams : done[t]

\* if stdout_done && stderr_done { break; }
loop_ends(done) == \A t \in Streams : done[t]

\* The select! polls the branch of stream s.
DrainPoll(s) ==
    /\ sh.drain_pc = "loop"
    /\ branch_enabled(s)
    /\ LET r == read_until(sh.rbuf[s], sh.pipe[s], Closed)
           n == sh.nread[s] + Len(r.got)
           line == sh.buf[s] \o r.got
           sent == try_send(sh.chan, sh.rx_open)
           read == [sh EXCEPT !.rbuf[s] = r.rbuf, !.pipe[s] = r.pipe]
       IN  IF ~r.ready
           THEN \* pending: what was read so far stays in buf
                /\ Len(r.got) > 0
                /\ sh' = [read EXCEPT !.buf[s] = line, !.nread[s] = n]
           ELSE IF n = 0
           THEN \* end of stream
                sh' = [read EXCEPT !.done[s] = TRUE,
                                   !.nread = [t \in Streams |-> 0],
                                   !.drain_pc =
                                        IF loop_ends([sh.done EXCEPT ![s] = TRUE])
                                        THEN "finished" ELSE "loop"]
           ELSE \* a line (or the rest of the stream)
                sh' = [read EXCEPT !.buf[s] = << >>,
                                   !.nread = [t \in Streams |-> 0],
                                   !.chan = IF sent THEN @ + 1 ELSE @,
                                   !.dropped = @ \/ ~sent,
                                   !.combined_output = after_line(@, line, sent),
                                   !.pushed =
                                        IF after_line(<< >>, line, sent) = << >> THEN @
                                        ELSE Append(@, [stream |-> s,
                                                        line |-> after_line(<< >>, line,
                                                                            sent)]),
                                   !.ref_output = after_line(@, line, TRUE)]
    /\ UNCHANGED << editor_vars, tasks >>

Drain == \E s \in Streams : DrainPoll(s)

\* child.wait().await is over: the child has exited.
BashWaited ==
    /\ sh.pc = "waiting"
    /\ sh.child = "exited"
    /\ sh' = [sh EXCEPT !.pc = "joining"]
    /\ UNCHANGED << editor_vars, tasks >>

\* output_task.await is over: the ceiling, process_shell_output, the result.
BashReturn ==
    /\ sh.pc = "joining"
    /\ sh.drain_pc = "finished"
    /\ sh' = [sh EXCEPT !.pc = "returned", !.result = finish(sh.elided, sh.combined_output, sh.tmp)]
    /\ UNCHANGED << editor_vars, tasks >>

\* The caller drops the future of the call while it awaits: the Child is
\* dropped with it, the spawned drain task is not.
Cancel ==
    /\ sh.pc \in { "waiting", "joining" }
    /\ sh' = [sh EXCEPT !.pc = "cancelled",
                        !.child = IF @ = "running" /\ kill_on_drop THEN "killed" ELSE @]
    /\ UNCHANGED << editor_vars, tasks >>

\* The receiver of the notifications takes one, or goes away.
Receive ==
    /\ sh.rx_open
    /\ sh.chan > 0
    /\ sh' = [sh EXCEPT !.chan = @ - 1]
    /\ UNCHANGED << editor_vars, tasks >>

CloseReceiver ==
    /\ sh.rx_open
    /\ sh' = [sh EXCEPT !.rx_open = FALSE, !.chan = 0]
    /\ UNCHANGED << editor_vars, tasks >>

EditorIdle ==
    /\ fs = [p \in AbsPaths |-> File(<< "a", LF >>)]
    /\ file_history = [p \in AbsPaths |-> << >>]
    /\ rule_files = TestRuleFiles
    /\ ignore_patterns = new(TestRuleFiles)
    /\ editor_model = FALSE
    /\ edits = [p \in AbsPaths |-> << >>]
    /\ edited = { }
    /\ last = NoCall
    /\ tasks = TasksIdle

\* Any command; a child that writes a character at most.
InitShell ==
    /\ EditorIdle
    /\ \E cmd \in Commands, script \in Scripts(1) :
            sh = [ShellIdle EXCEPT !.cmd = cmd, !.script = script]

\* One command that passes the check; a child that writes anything.
InitDrain ==
    /\ EditorIdle
    /\ \E script \in Scripts(MaxScript) :
            sh = [ShellIdle EXCEPT !.cmd = << Token(FALSE, PathA) >>, !.script = script]

Child == ChildWrite \/ ChildExit
Bash == BashStart \/ BashWaited \/ BashReturn

NextShell == Bash \/ Child \/ Drain \/ Cancel \/ Receive \/ CloseReceiver

SpecShell == InitShell /\ [][NextShell]_vars

SpecDrain == InitDrain /\ [][NextShell]_vars

\* The runtime runs a task that can run, and the child runs when it can.
SpecDrainFair ==
    InitDrain /\ [][NextShell]_vars
    /\ WF_vars(Bash) /\ WF_vars(Child) /\ WF_vars(Drain)

\* ------------------------------------------- str_replace on texts of all shapes

\* The longest text a file holds at the start of a run of SpecReplace.
MaxText == 3

Chars == { "a", CR, LF }
Texts(n) == UNION { [1..k -> Chars] : k \in 0..n }

ReplaceOldStrs == Texts(2)
ReplaceNewStrs == { << >>, << "a" >>, << CR >>, << LF >>, << "a", "a" >> }

InitReplace == InitRouter({ NoFile } \cup { File(t) : t \in Texts(MaxText) })

\* One str_replace on the file, then one undo_edit.
FirstReplace ==
    /\ last.op = "none"
    /\ \E old_str \in ReplaceOldStrs, new_str \in ReplaceNewStrs, edit \in Answers :
            StrReplace(PathA, old_str, new_str, edit)

ThenUndo ==
    /\ last.op = "str_replace"
    /\ UndoEdit(PathA)

NextReplace == FirstReplace \/ ThenUndo

SpecReplace == InitReplace /\ [][NextReplace]_vars

\* ------------------------------------------------------- the editor's claims

\* The positions at which pat occurs in s (occurrences may overlap).
Positions(s, pat) == { i \in 1..(Len(s) + 1) : MatchAt(s, pat, i) }
Occurrences(s, pat) == Cardinality(Positions(s, pat))

\* s with the occurrence of from at position i replaced by to.
ReplaceAt(s, i, from, to) ==
    SubSeq(s, 1, i - 1) \o to \o SubSeq(s, i + Len(from), Len(s))

\* The file the call just made is about.
Target(call) == resolve_path(call.path).path

\* The call just made is a str_replace, without an editor model, on an existing
\* file the gate lets through, whose content holds old_str exactly once.
ReplaceOfTheOnlyOccurrence ==
    /\ last'.op = "str_replace"
    /\ last'.gate = "pass"
    /\ ~editor_model
    /\ fs[Target(last')].exists
    /\ Occurrences(fs[Target(last')].content, last'.old) = 1

\* An undo_edit that comes right after a successful str_replace on the same
\* path, without an editor model.
UndoRightAfterReplace ==
    /\ last.op = "str_replace"
    /\ last.gate = "pass"
    /\ last.result = "Ok"
    /\ ~editor_model
    /\ last'.op = "undo_edit"
    /\ last'.path = last.path

UndoRestoresOriginal ==
    UndoRightAfterReplace =>
        /\ last'.result = "Ok"
        /\ Len(edits[Target(last)]) > 0
        /\ fs'[Target(last)] = File(edits[Target(last)][Len(edits[Target(last)])])

\* C1 as the spec states it: with no edit delegate, a str_replace whose old_str
\* occurs exactly once in an existing, non-ignored file succeeds, the new
\* content is the original with that occurrence replaced by new_str, and an
\* undo_edit right after it restores the original content.
C1_AsStated ==
    [][ /\ ReplaceOfTheOnlyOccurrence =>
            LET c == fs[Target(last')].content
                i == CHOOSE i \in Positions(c, last'.old) : TRUE
            IN  /\ last'.result = "Ok"
                /\ fs'[Target(last')] = File(ReplaceAt(c, i, last'.old, last'.new))
        /\ UndoRestoresOriginal ]_vars

\* C1, amended: the new content is the original with that occurrence replaced
\* by new_str and the line endings then normalized (CRLF written as LF); the
\* undo_edit right after it restores the original content, byte for byte.
C1_ReplaceThenUndo ==
    [][ /\ ReplaceOfTheOnlyOccurrence =>
            LET c == fs[Target(last')].content
                i == CHOOSE i \in Positions(c, last'.old) : TRUE
            IN  /\ last'.result = "Ok"
                /\ fs'[Target(last')] =
                       File(normalize_line_endings(ReplaceAt(c, i, last'.old, last'.new)))
        /\ UndoRestoresOriginal ]_vars

\* A str_replace of the only occurrence was undone: the file holds a CR LF
\* again that the replace had normalized away.
C1_Witness ==
    /\ last.op = "undo_edit"
    /\ last.result = "Ok"
    /\ ~editor_model
    /\ fs[PathA] = File(<< "a", CR, LF >>)
    /\ file_history[PathA] = << >>
    /\ PathA \in edited

\* C2: with no edit delegate, a str_replace whose old_str occurs zero times, or
\* two or more times, in the file returns InvalidParameters (one message for
\* zero, another for several) and leaves the file as it was.
C2_AsStated ==
    [][ ( /\ last'.op = "str_replace"
          /\ last'.gate = "pass"
          /\ ~editor_model
          /\ fs[Target(last')].exists
          /\ Occurrences(fs[Target(last')].content, last'.old) # 1 ) =>
        ( /\ last'.result = "InvalidParameters"
          /\ last'.msg = IF Occurrences(fs[Target(last')].content, last'.old) = 0
                         THEN "zero" ELSE "multiple"
          /\ fs' = fs ) ]_vars

\* C3: undo_edit succeeds exactly while successful str_replace/insert calls on
\* the path are left to take back; it then pops one entry and restores the
\* content from before the latest of them; with none left it fails with
\* InvalidParameters; it never pushes.
C3_AsStated ==
    [][ (last'.op = "undo_edit" /\ last'.gate = "pass") =>
        LET p == Target(last')
            e == edits[p]
        IN  IF Len(e) > 0
            THEN /\ last'.result = "Ok"
                 /\ fs'[p] = File(e[Len(e)])
                 /\ Len(file_history'[p]) = Len(file_history[p]) - 1
            ELSE /\ last'.result = "InvalidParameters"
                 /\ fs' = fs
                 /\ file_history' = file_history ]_vars

\* C4: on a path the gate lets through and on which no edit has been carried
\* out since the start, undo_edit returns InvalidParameters and leaves the file
\* and the history as they were.
C4_AsStated ==
    [][ ( /\ last'.op = "undo_edit"
          /\ last'.gate = "pass"
          /\ Target(last') \notin edited ) =>
        ( /\ last'.result = "InvalidParameters"
          /\ fs' = fs
          /\ file_history' = file_history ) ]_vars

\* C5: a successful write pushes one history entry, the file's content before
\* the write or the empty text when there was no file.
C5_AsStated ==
    [][ (last'.op = "write" /\ last'.result = "Ok") =>
        LET p == Target(last')
        IN  file_history'[p] =
                Append(file_history[p], IF fs[p].exists THEN fs[p].content ELSE << >>) ]_vars

\* C6: a text_editor call of any of the five commands on a path the gate
\* ignores returns ExecutionError without a file system call: no file and no
\* history entry changes.
C6_IgnoredPathIsNotTouched ==
    [][ ( /\ last'.op \in { "view", "write", "str_replace", "insert", "undo_edit" }
          /\ resolve_path(last'.path).ok
          /\ is_ignored(Target(last')) ) =>
        ( /\ last'.result = "ExecutionError"
          /\ last'.access = { }
          /\ fs' = fs
          /\ file_history' = file_history ) ]_vars

\* A write to the ignored file was refused, and the file is as it was.
C6_Witness ==
    /\ last.op = "write"
    /\ last.path = PathSecret
    /\ last.result = "ExecutionError"
    /\ fs[PathSecret] = File(<< "a", LF >>)

\* ------------------------------------------------- claims on the shell tool

\* A token after the command name that bash must refuse.
RestrictedToken(cmd_parts, i) ==
    /\ i \in 2..Len(cmd_parts)
    /\ ~cmd_parts[i].dash
    /\ path_exists(cmd_parts[i].path)
    /\ is_ignored(cmd_parts[i].path)

Spawned == sh.child # "none"

\* C7: once bash has looked at the command: if a token after the first does not
\* start with '-', names an existing path and is ignored, the call has returned
\* ExecutionError naming such a token and no child was spawned; for any other
\* command the child was spawned.
C7_AsStated ==
    sh.pc # "start" =>
        IF \E i \in 1..Len(sh.cmd) : RestrictedToken(sh.cmd, i)
        THEN /\ sh.pc = "returned"
             /\ sh.result.kind = "ExecutionError"
             /\ \E i \in 1..Len(sh.cmd) :
                    RestrictedToken(sh.cmd, i) /\ sh.result.arg = sh.cmd[i]
             /\ ~Spawned
        ELSE Spawned

\* What a stream holds that the loop has not taken yet.
Unread(s) == sh.rbuf[s] \o sh.pipe[s]

AtRest ==
    /\ sh.pc \in { "returned", "cancelled" }
    /\ sh.drain_pc = "finished"

\* C8: whatever the child writes, with pipes of PipeCap characters: while the
\* loop runs, a stream that holds unread characters can be read whatever the
\* state of the other stream, some step of the call, the child or the loop is
\* possible until all is over, and under fair scheduling of the three the call
\* returns (or is cancelled) and the loop ends.
C8_NeverDeadlocks ==
    /\ [](\A s \in Streams :
            sh.drain_pc = "loop" /\ Len(Unread(s)) > 0 => ENABLED DrainPoll(s))
    /\ [](sh.pc # "start" /\ ~AtRest => ENABLED (Bash \/ Child \/ Drain))
    /\ <>(sh.pc \in { "returned", "cancelled" })
    /\ <>(sh.drain_pc = "finished")

\* The call has returned after its child had to wait for room in a pipe.
C8_Witness ==
    /\ sh.pc = "returned"
    /\ sh.result.kind = "Ok"
    /\ sh.stalled
    /\ Len(sh.ref_output) > PipeCap

\* C9: a channel that is full or closed stops nothing and changes nothing: a
\* line that can be read is read whatever the channel, the output gathered is
\* the output of the same run with a channel that takes every event, and so is
\* the result of the call.
C9_NotificationsAreAdvisory ==
    /\ sh.combined_output = sh.ref_output
    /\ \A s \in Streams :
            ( /\ sh.drain_pc = "loop"
              /\ ~sh.done[s]
              /\ ~try_send(sh.chan, sh.rx_open)
              /\ HasLF(Unread(s)) \/ Closed )
            => ENABLED DrainPoll(s)
    /\ sh.pc = "returned" /\ Spawned => sh.result = finish(sh.elided, sh.ref_output, sh.tmp)

\* The call has returned its output although an event was dropped.
C9_Witness ==
    /\ sh.pc = "returned"
    /\ sh.dropped
    /\ sh.result.kind = "Ok"
    /\ Len(sh.result.final_output) > 0

\* C10: a call that was abandoned has no running child.
C10_CancelKillsTheChild ==
    sh.pc = "cancelled" => sh.child # "running"

\* The call was abandoned while its child still had something to write.
C10_Witness ==
    /\ sh.pc = "cancelled"
    /\ sh.child = "killed"
    /\ Len(sh.script) > 0

\* ----------------------------------------------- insert on texts of all shapes

InsertNewStrs == { << "a" >>, << "b" >> }

InitInsert == InitRouter({ NoFile } \cup { File(t) : t \in Texts(MaxText) })

\* One insert on the file, then one undo_edit.
FirstInsert ==
    /\ last.op = "none"
    /\ \E insert_line \in 0..(MaxText + 1), new_str \in InsertNewStrs :
            Insert(PathA, insert_line, new_str)

UndoInsert ==
    /\ last.op = "insert"
    /\ UndoEdit(PathA)

NextInsert == FirstInsert \/ UndoInsert

SpecInsert == InitInsert /\ [][NextInsert]_vars

\* ls without its element at position k.
Without(ls, k) == SubSeq(ls, 1, k - 1) \o SubSeq(ls, k + 1, Len(ls))

\* C11: an insert of a one-line new_str into an existing file of L lines: with
\* insert_line <= L the file then has L + 1 lines, new_str is line
\* insert_line + 1, the other lines are the original ones in their order, and
\* the file ends with a newline; with insert_line > L the call returns
\* InvalidParameters and the file is as it was.
C11_AsStated ==
    [][ ( /\ last'.op = "insert"
          /\ last'.gate = "pass"
          /\ fs[Target(last')].exists ) =>
        LET p == Target(last')
            before == lines(fs[p].content)
            after == lines(fs'[p].content)
            k == last'.line
        IN  IF k <= Len(before)
            THEN /\ last'.result = "Ok"
                 /\ Len(after) = Len(before) + 1
                 /\ after[k + 1] = last'.new
                 /\ Without(after, k + 1) = before
                 /\ ends_with(fs'[p].content, LF)
            ELSE /\ last'.result = "InvalidParameters"
                 /\ fs' = fs ]_vars

\* ------------------------------------------------- the gate over rule files

FileRules == { Rule(pattern, negated) : pattern \in { "*.log", ".env" }, negated \in BOOLEAN }
RuleFile == { Absent } \cup { Lines(r) : r \in UNION { [1..k -> FileRules] : k \in 0..MaxRules } }
RuleFiles == [global : RuleFile, local : RuleFile, gitignore : RuleFile]

GateNames == { ".env", ".env.local", "secrets.txt", "test.log", "normal.txt" }
GatePaths == { << "/", name >> : name \in GateNames }

\* A router built over any ignore files, in a directory that holds a file of
\* each name.
InitGate ==
    /\ rule_files \in RuleFiles
    /\ ignore_patterns = new(rule_files)
    /\ fs = [p \in GatePaths |-> File(<< "a", LF >>)]
    /\ file_history = [p \in GatePaths |-> << >>]
    /\ editor_model = FALSE
    /\ edits = [p \in GatePaths |-> << >>]
    /\ edited = { }
    /\ last = NoCall
    /\ tasks = TasksIdle
    /\ sh = ShellIdle

\* One view of one of the files.
ViewOnce ==
    /\ last.op = "none"
    /\ \E p \in GatePaths : View(p, << >>)

SpecGate == InitGate /\ [][ViewOnce]_vars

\* The name of the file the last call was about.
Asked == last.path[Len(last.path)]

Listed(f, name) ==
    is_file(f) /\ \E i \in 1..Len(f.rules) : name \in glob(f.rules[i].pattern)

\* A pattern of .gitignore matches the name, and no line of a .gooseignore does.
OnlyInGitignore(name) ==
    /\ \E i \in 1..Len(rule_files.gitignore.rules) :
            /\ ~rule_files.gitignore.rules[i].negated
            /\ name \in glob(rule_files.gitignore.rules[i].pattern)
    /\ ~Listed(rule_files.global, name)
    /\ ~Listed(rule_files.local, name)

\* C12: with a local .gooseignore, a file that only a pattern of .gitignore
\* matches is not ignored: the gate lets a call on it through.
C12_LocalRulesReplaceGitignore ==
    ( /\ is_file(rule_files.local)
      /\ last.op = "view"
      /\ OnlyInGitignore(Asked) ) =>
    ( /\ Asked \notin ignore_patterns
      /\ last.gate = "pass"
      /\ last.result = "Ok" )

\* Both files are there, *.log is a line of .gitignore only, and test.log was
\* viewed.
C12_Witness ==
    /\ is_file(rule_files.local)
    /\ rule_files.gitignore = Lines(<< Rule("*.log", FALSE) >>)
    /\ last.op = "view"
    /\ Asked = "test.log"
    /\ last.result = "Ok"

\* C13: with a global or a local .gooseignore, a file that only a pattern of
\* .gitignore matches is not ignored.
C13_AsStated ==
    ( /\ is_file(rule_files.global) \/ is_file(rule_files.local)
      /\ last.op = "view"
      /\ OnlyInGitignore(Asked) ) =>
    ( /\ Asked \notin ignore_patterns
      /\ last.gate = "pass" )

DefaultNames == { ".env", ".env.local", "secrets.txt" }

\* The three default rules are in force: the three names are ignored.
DefaultsInForce == DefaultNames \subseteq ignore_patterns

\* The names the lines of the files that were read ignore.
FromFiles == { name \in Names : is_ignore(rule_files.global.rules \o rule_files.local.rules
                                            \o (IF is_file(rule_files.local) THEN << >>
                                                ELSE rule_files.gitignore.rules), name) }

\* C14 as the spec states it: without a local .gooseignore and without a
\* .gitignore the three default rules are installed and .env, .env.<x> and
\* secrets.<x> are ignored; with one of the two files they are not installed.
C14_AsStated ==
    IF ~is_file(rule_files.local) /\ ~is_file(rule_files.gitignore)
    THEN /\ DefaultsInForce
         /\ last.op = "view" /\ Asked \in DefaultNames => last.result = "ExecutionError"
    ELSE ignore_patterns = FromFiles

\* C14, amended: the default rules are installed exactly when none of the
\* three files exists, the global .gooseignore included; when one exists the
\* rule set is what the files that were read say, and nothing else.
C14_DefaultsWhenNoFileAtAll ==
    IF ~is_file(rule_files.global) /\ ~is_file(rule_files.local) /\ ~is_file(rule_files.gitignore)
    THEN /\ DefaultsInForce
         /\ last.op = "view" /\ Asked \in DefaultNames => last.result = "ExecutionError"
         /\ last.op = "view" /\ Asked \notin DefaultNames => last.result = "Ok"
    ELSE ignore_patterns = FromFiles

\* No ignore file at all, and the view of .env.local was refused.
C14_Witness ==
    /\ rule_files = [global |-> Absent, local |-> Absent, gitignore |-> Absent]
    /\ last.op = "view"
    /\ Asked = ".env.local"
    /\ last.gate = "ignored"
    /\ last.result = "ExecutionError"

\* --------------------------------------------- the output of a command, sized

\* The outputs of SpecOutput have up to MaxOver lines more than LINE_LIMIT and
\* up to MaxOver characters more than MAX_CHAR_COUNT.
MaxOver == 3

\* n lines "1", "2", .. with LF or CR LF between them, with or without a
\* line ending after the last one.
NumberedLines(n, crlf) ==
    [i \in 1..n |-> IF crlf THEN << ToString(i), CR >> ELSE << ToString(i) >>]
GenText(n, crlf, ended) ==
    join(NumberedLines(n, crlf)) \o (IF ended THEN << LF >> ELSE << >>)

Tails == { << >>, << "x" >>, << "x", LF, "x" >> }

\* bash when child.wait() and the drain task are over, with what was drained.
Drained(elided, output_str) ==
    [ShellIdle EXCEPT !.cmd = << Token(FALSE, PathA) >>, !.pc = "joining",
                      !.child = "exited", !.drain_pc = "finished",
                      !.done = [s \in Streams |-> TRUE],
                      !.elided = elided,
                      !.combined_output = output_str, !.ref_output = output_str]

InitOutput ==
    /\ EditorIdle
    /\ \/ \E n \in 0..(LINE_LIMIT + MaxOver), crlf \in BOOLEAN, ended \in BOOLEAN :
            sh = Drained(0, GenText(n, crlf, ended))
       \/ \E elided \in (MAX_CHAR_COUNT - MaxOver)..(MAX_CHAR_COUNT + MaxOver),
             output_str \in Tails :
            sh = Drained(elided, output_str)

SpecOutput == InitOutput /\ [][BashReturn]_vars

\* C15: for an output of at most 100 lines, no file is created and both views
\* are the output, unchanged.
C15_ShortOutputIsUnchanged ==
    ( /\ sh.pc = "returned"
      /\ sh.elided = 0
      /\ Len(lines(sh.combined_output)) <= 100 ) =>
    ( /\ sh.result.kind = "Ok"
      /\ sh.result.tmp_file = << >>
      /\ sh.result.final_output = sh.combined_output
      /\ sh.result.user_output = sh.combined_output )

\* An output of exactly 100 lines was returned as it is.
C15_Witness ==
    /\ sh.pc = "returned"
    /\ sh.elided = 0
    /\ Len(lines(sh.combined_output)) = 100
    /\ sh.result.tmp_file = << >>
    /\ sh.result.user_output = sh.combined_output

\* C16: for an output of N > 100 lines, the human view is the marker and the
\* lines N-99..N joined by newlines, the engine view holds N, the path of the
\* file and the same excerpt, and the file holds the whole output.
C16_LongOutputIsCutTo100 ==
    ( /\ sh.pc = "returned"
      /\ sh.elided = 0
      /\ Len(lines(sh.combined_output)) > 100 ) =>
    LET ls == lines(sh.combined_output)
        N == Len(ls)
        excerpt == join([i \in 1..100 |-> ls[N - 100 + i]])
    IN  /\ sh.result.kind = "Ok"
        /\ Len(sh.result.tmp_file) = 1
        /\ lines(sh.result.tmp_file[1]) = ls
        /\ sh.result.user_output = [marker |-> "...", truncated |-> excerpt]
        /\ sh.result.final_output =
                [line_count |-> N, path |-> TmpPath, truncated |-> excerpt]

\* An output of 101 lines was cut: line 1 is not in the excerpt, line 2 is.
C16_Witness ==
    /\ sh.pc = "returned"
    /\ sh.combined_output = GenText(101, FALSE, TRUE)
    /\ Len(sh.result.tmp_file) = 1
    /\ lines(sh.result.user_output.truncated)[1] = << "2" >>

\* C17: the call returns ExecutionError with the size measured, no view and
\* no file, exactly when the output has more than 400,000 characters.
C17_CharacterCeiling ==
    sh.pc = "returned" =>
        LET char_count == sh.elided + Len(sh.combined_output)
        IN  IF char_count > 400000
            THEN /\ sh.result.kind = "ExecutionError"
                 /\ sh.result.msg = "too_many_characters"
                 /\ sh.result.char_count = char_count
                 /\ sh.result.tmp_file = << >>
                 /\ "final_output" \notin DOMAIN sh.result
                 /\ "user_output" \notin DOMAIN sh.result
            ELSE sh.result.kind = "Ok"

\* An output of 400,001 characters was refused.
C17_Witness ==
    /\ sh.pc = "returned"
    /\ sh.elided + Len(sh.combined_output) = 400001
    /\ sh.result.kind = "ExecutionError"

\* An output of exactly 400,000 characters was returned.
C17_AtTheCeiling ==
    /\ sh.pc = "returned"
    /\ sh.elided + Len(sh.combined_output) = 400000
    /\ sh.result.kind = "Ok"

\* ------------------------------------------------- view on texts of all shapes

Ranges ==
    { << >> } \cup { << start, end >> : start \in (-1)..(MaxText + 1),
                                        end \in (-2)..(MaxText + 1) }

InitView == InitRouter({ NoFile } \cup { File(t) : t \in Texts(MaxText) })

\* One view of the file, with or without a range.
ViewRange ==
    /\ last.op = "none"
    /\ \E range \in Ranges : View(PathA, range)

SpecView == InitView /\ [][ViewRange]_vars

\* The last call was a view with a range of an existing file the gate lets
\* through.
ViewedWithRange ==
    /\ last.op = "view"
    /\ last.gate = "pass"
    /\ fs[Target(last)].exists
    /\ last.range # << >>

\* C18: a view with view_range [start, end] of a file of L lines returns
\* InvalidParameters ("beyond the end of the file") when start > L, and
\* InvalidParameters whenever start >= end and end is not -1.
C18_AsStated ==
    ViewedWithRange =>
        LET L == Len(lines(fs[Target(last)].content))
            start == last.range[1]
            end == last.range[2]
        IN  /\ start > L =>
                last.result = "InvalidParameters" /\ last.msg = "beyond_end"
            /\ (start >= end /\ end # -1) => last.result = "InvalidParameters"

\* C19: a view that succeeds shows the lines start..min(end, L) (start..L when
\* end is -1; 1..L without a range), each with its number in the file, in
\* order, and no other line.
C19_AsStated ==
    ( /\ last.op = "view"
      /\ last.gate = "pass"
      /\ last.result = "Ok" ) =>
    LET ls == lines(fs[Target(last)].content)
        L == Len(ls)
        ranged == last.range # << >>
        lo == IF ranged /\ last.range[1] > 1 THEN last.range[1] ELSE 1
        hi == IF ~ranged \/ last.range[2] = -1 \/ last.range[2] > L THEN L
              ELSE last.range[2]
    IN  last.out = [i \in 1..(hi - lo + 1) |-> Numbered(lo + i - 1, ls[lo + i - 1])]

\* ------------------------------------------------------ edits of no file

\* C20: a str_replace (edit_file with an editor model) or an insert on a path
\* that does not exist returns InvalidParameters, creates no file and leaves
\* the history as it was.
C20_MissingFileIsNotEdited ==
    [][ ( /\ last'.op \in { "str_replace", "insert" }
          /\ last'.gate = "pass"
          /\ ~fs[Target(last')].exists ) =>
        ( /\ last'.result = "InvalidParameters"
          /\ last'.msg = "not_exist"
          /\ fs' = fs
          /\ file_history' = file_history ) ]_vars

\* An insert into a file that is not there was refused, and nothing is there.
C20_Witness ==
    /\ last.op = "insert"
    /\ last.result = "InvalidParameters"
    /\ last.msg = "not_exist"
    /\ ~fs[PathA].exists
    /\ file_history[PathA] = << >>

\* ------------------------------------------------ write on texts of all shapes

InitWrite == InitRouter({ NoFile } \cup { File(t) : t \in Texts(MaxText) })

\* One write of any text, then a view of the file or the same write again.
FirstWrite ==
    /\ last.op = "none"
    /\ \E file_text \in Texts(MaxText) : Write(PathA, file_text)

ViewWritten ==
    /\ last.op = "write"
    /\ View(PathA, << >>)

WriteAgain ==
    /\ last.op = "write"
    /\ Write(PathA, last.new)

NextWrite == FirstWrite \/ ViewWritten \/ WriteAgain

SpecWrite == InitWrite /\ [][NextWrite]_vars

\* file_text with CRLF written as LF, and a final LF if it had none.
Written(file_text) ==
    LET n == normalize_line_endings(file_text)
    IN  IF Len(n) > 0 /\ n[Len(n)] = LF THEN n ELSE n \o << LF >>

C22_RelativePathIsRefusedFirst ==
    [][ ( /\ last'.op \in { "view", "write", "str_replace", "insert", "undo_edit" }
          /\ ~is_absolute_path(expand_path(last'.path)) ) =>
        ( /\ last'.result = "InvalidParameters"
          /\ last'.msg = "not_absolute"
          /\ last'.out = cwd \o expand_path(last'.path)
          /\ last'.access = { }
          /\ fs' = fs
          /\ file_history' = file_history ) ]_vars

\* A write to secret.txt, given without a directory, was refused as not
\* absolute, with /secret.txt as the suggestion.
C22_Witness ==
    /\ last.op = "write"
    /\ last.path = PathRelSecret
    /\ is_ignored(last.path)
    /\ last.result = "InvalidParameters"
    /\ last.out = PathSecret

\* ----------------------------------------------------------------- call_tool


\* A text of n characters beyond its tail c, taking w bytes more than n + Len(c).
SizedFile(c, n, w) == [File(c) EXCEPT !.elided = n, !.wide = w]

UnknownTool == "no_such_tool"
ToolNames ==
    { "shell", "glob", "grep", "text_editor", "list_windows", "screen_capture",
      "image_processor", UnknownTool }

EditorCommands ==
    { "view", "write", "str_replace", "edit_file", "insert", "undo_edit", "rename" }
EditorParams == { "file_text", "old_str", "new_str", "insert_line" }

\* The argument bags of a call, by tool.
Arguments(tool_name) ==
    CASE tool_name = "text_editor" ->
            [command : { None } \cup { Some(c) : c \in EditorCommands },
             path : { None } \cup { Some(p) : p \in RawPaths },
             missing : { { } } \cup { { n } : n \in EditorParams },
             old : OldStrs, line : InsertLineNos, range : { << >>, << 3, 4 >>, << 2, 1 >> }]
      [] tool_name \in { "shell", "grep" } ->
            [command : { None, Some(sh.cmd) }]
      [] tool_name = "glob" ->
            [pattern : { None, Some("valid"), Some("invalid") }]
      [] tool_name = "image_processor" ->
            [path : { None, Some(PathA) }]
      [] OTHER -> { [none |-> TRUE] }

\* What a tool that asks the system (the windows, a monitor, an image file)
\* can return.
SystemAnswers == { "Ok", "ExecutionError" }

\* The return of a tool that is not the editor.
Returned(tool_name, result, msg) ==
    /\ last' = Record(tool_name, << >>, NoArgs, "none",
                      Outcome(result, msg, NoFile, << >>, {}, << >>))
    /\ UNCHANGED << fs, file_history, rule_files, ignore_patterns, editor_model, edits,
                   edited, sh, tasks >>

\* text_editor: the command and the path are read first, and the parameters of
\* a command after the gate.
text_editor(params) ==
    IF params.command = None THEN Returned("text_editor", "InvalidParameters", "missing_command")
    ELSE IF params.path = None THEN Returned("text_editor", "InvalidParameters", "missing_path")
    ELSE LET command == params.command[1]
             path_str == params.path[1]
             r == resolve_path(path_str)
         IN  \* texts with an elided part are only viewed: the edits are modelled
             \* on whole texts
             /\ (r.ok /\ fs[r.path].elided > 0) => command = "view"
             /\ \E edit \in Answers :
                    TextEditor(command, path_str,
                               [NoArgs EXCEPT !.old = params.old, !.new = << "b" >>,
                                              !.line = params.line, !.range = params.range,
                                              !.edit = edit, !.missing = params.missing])

\* bash: the command string is read first.
bash(params) ==
    IF params.command = None
    THEN /\ sh.pc = "start"
         /\ sh' = [sh EXCEPT !.pc = "returned",
                             !.result = [kind |-> "InvalidParameters",
                                         msg |-> "missing_command"]]
         /\ UNCHANGED << editor_vars, tasks >>
    ELSE BashStart

\* glob: the pattern is required and must parse; the entries that cannot be
\* read are skipped.
glob_tool(params) ==
    IF params.pattern = None THEN Returned("glob", "InvalidParameters", "missing_pattern")
    ELSE IF params.pattern = Some("invalid")
    THEN Returned("glob", "InvalidParameters", "invalid_pattern")
    ELSE Returned("glob", "Ok", "glob")

list_windows == \E r \in SystemAnswers : Returned("list_windows", r, "list_windows")

screen_capture == \E r \in SystemAnswers : Returned("screen_capture", r, "screen_capture")

image_processor(params) ==
    IF params.path = None
    THEN Returned("image_processor", "InvalidParameters", "missing_path")
    ELSE \E r \in SystemAnswers : Returned("image_processor", r, "image_processor")

\* call_tool: the match on the tool name.
call_tool(tool_name, arguments) ==
    CASE tool_name = "shell" -> bash(arguments)
      [] tool_name = "glob" -> glob_tool(arguments)
      [] tool_name = "grep" -> bash(arguments)
      [] tool_name = "text_editor" -> text_editor(arguments)
      [] tool_name = "list_windows" -> list_windows
      [] tool_name = "screen_capture" -> screen_capture
      [] tool_name = "image_processor" -> image_processor(arguments)
      [] OTHER -> Returned(tool_name, "NotFound", "tool_not_found")

\* Files of all kinds at PathA: none, short ones, and long ones on both sides
\* of the two ceilings of view.
DispatchFiles ==
    { NoFile, File(<< "a", LF >>), File(<< "a", "a" >>),
      SizedFile(<< "a" >>, MAX_CHAR_COUNT, 0),
      SizedFile(<< "a" >>, MAX_CHAR_COUNT - 1, MAX_FILE_SIZE - MAX_CHAR_COUNT + 1) }

\* A router between two calls, with one edit of PathA to undo or none; the
\* command the shell will be given.
InitDispatch ==
    /\ fs \in { [p \in AbsPaths |-> IF p = PathA THEN f ELSE File(<< "a", LF >>)] :
                f \in DispatchFiles }
    /\ \E h \in { << >>, << << "b", LF >> >> } :
            /\ file_history = [p \in AbsPaths |-> IF p = PathA THEN h ELSE << >>]
            /\ edits = [p \in AbsPaths |-> IF p = PathA THEN h ELSE << >>]
            /\ edited = IF h = << >> THEN { } ELSE { PathA }
    /\ rule_files = TestRuleFiles
    /\ ignore_patterns = new(TestRuleFiles)
    /\ editor_model \in BOOLEAN
    /\ last = NoCall
    /\ tasks = TasksIdle
    /\ \E cmd \in { << Token(FALSE, PathA) >>, << Token(FALSE, PathA), Token(FALSE, PathSecret) >> },
          script \in Scripts(1) :
            sh = [ShellIdle EXCEPT !.cmd = cmd, !.script = script]

\* The first call of the run: any tool name, any argument bag.
CallTool ==
    \E tool_name \in ToolNames :
        \E arguments \in Arguments(tool_name) :
            /\ last.op = "none"
            /\ sh.pc = "start"
            /\ call_tool(tool_name, arguments)

NextDispatch == CallTool \/ Child \/ Drain \/ BashWaited \/ BashReturn

SpecDispatch == InitDispatch /\ [][NextDispatch]_vars

\* The kind of the result the dispatcher has just returned, or "none".
ReturnedKind ==
    IF last' # last THEN last'.result
    ELSE IF sh'.pc = "returned" /\ sh.pc # "returned" THEN sh'.result.kind
    ELSE "none"

\* What the failure just returned was about, or "none".
ReturnedMsg ==
    IF last' # last THEN last'.msg
    ELSE IF sh'.pc = "returned" /\ sh.pc # "returned" /\ sh'.result.kind # "Ok"
    THEN sh'.result.msg
    ELSE "none"

DenialsAndCeilings == { "ignored", "restricted", "too_large", "too_many_characters" }
ParameterFailures ==
    { "zero", "multiple", "beyond_end", "start_not_before_end", "unknown_command" }
    \cup { "missing_" \o n : n \in EditorParams \cup { "command", "path", "pattern" } }

\* The second half of C23: which kind each failure has.
KindsByFailure ==
    /\ ReturnedMsg \in DenialsAndCeilings => ReturnedKind = "ExecutionError"
    /\ ReturnedMsg \in ParameterFailures => ReturnedKind = "InvalidParameters"

\* C23 as the specification states it: whatever the tool name and the argument
\* bag, an error the dispatcher returns is InvalidParameters or ExecutionError;
\* denials of the gate and size ceilings are ExecutionError, and match-count,
\* range, missing-parameter and unknown-command failures are InvalidParameters.
C23_AsStated ==
    [][ /\ ReturnedKind \in { "none", "Ok", "InvalidParameters", "ExecutionError" }
        /\ KindsByFailure ]_vars

\* C23, amended: a tool name the dispatcher does not know is answered with a
\* third kind, NotFound; the errors of the tools it knows are InvalidParameters
\* or ExecutionError, with denials of the gate and size ceilings ExecutionError
\* and match-count, range, missing-parameter and unknown-command failures
\* InvalidParameters.
C23_TwoKindsForKnownTools ==
    [][ /\ (last' # last /\ last'.op = UnknownTool) <=> ReturnedKind = "NotFound"
        /\ ReturnedKind \in { "none", "Ok", "InvalidParameters", "ExecutionError", "NotFound" }
        /\ KindsByFailure ]_vars

\* The editor has refused a command it does not know, on a path the gate lets
\* through.
C23_Witness ==
    /\ last.op = "rename"
    /\ last.gate = "pass"
    /\ last.result = "InvalidParameters"
    /\ last.msg = "unknown_command"

\* -------------------------------------------------------- audiences of results

\* The Ok of bash: final_output for the assistant, user_output for the user.
bash_contents(result) ==
    << [audience |-> "assistant", text |-> result.final_output],
       [audience |-> "user", text |-> result.user_output] >>

\* The audiences of the items of the successful result just returned by one of
\* the tools in names, or << >> if no such result was just returned.
AudiencesReturned(names) ==
    IF last' # last /\ last'.result = "Ok" /\ last'.op \in names
    THEN last'.items
    ELSE IF /\ "shell" \in names
            /\ sh'.pc = "returned" /\ sh.pc # "returned" /\ sh'.result.kind = "Ok"
    THEN [i \in 1..Len(bash_contents(sh'.result)) |-> bash_contents(sh'.result)[i].audience]
    ELSE << >>

ForBoth(audiences) ==
    audiences # << >> =>
        /\ \E i \in 1..Len(audiences) : audiences[i] = "assistant"
        /\ \E i \in 1..Len(audiences) : audiences[i] = "user"

\* C24 as the specification states it: every successful result of shell, glob,
\* view, write, str_replace/edit_file, insert and undo_edit holds an item for
\* the assistant and an item for the user.
C24_AsStated ==
    [][ ForBoth(AudiencesReturned({ "shell", "glob", "view", "write", "str_replace",
                                    "edit_file", "insert", "undo_edit" })) ]_vars

\* C24, amended: every successful result of shell, glob, view, write,
\* str_replace/edit_file and insert holds an item for the assistant and an item
\* for the user; a successful undo_edit returns one item, which names no
\* audience.
C24_BothAudiencesButUndo ==
    [][ /\ ForBoth(AudiencesReturned({ "shell", "glob", "view", "write", "str_replace",
                                       "edit_file", "insert" }))
        /\ AudiencesReturned({ "undo_edit" }) \in { << >>, << "none" >> } ]_vars

\* An edit was undone.
C24_Witness ==
    /\ last.op = "undo_edit"
    /\ last.result = "Ok"
    /\ last.items = << "none" >>

\* ---------------------------------------------------- view and its two ceilings

\* Character counts on both sides of MAX_CHAR_COUNT, and one far below it.
SizeChars ==
    { MAX_CHAR_COUNT \div 2, MAX_CHAR_COUNT - 1, MAX_CHAR_COUNT, MAX_CHAR_COUNT + 1,
      MAX_FILE_SIZE, MAX_FILE_SIZE + 1 }

\* Bytes beyond one per character: none, and what brings the bytes of a text of
\* about MAX_CHAR_COUNT characters, or of half as many, to both sides of
\* MAX_FILE_SIZE.
SizeWides ==
    { 0, MAX_FILE_SIZE - MAX_CHAR_COUNT - 1, MAX_FILE_SIZE - MAX_CHAR_COUNT,
      MAX_FILE_SIZE - MAX_CHAR_COUNT + 1, MAX_FILE_SIZE - MAX_CHAR_COUNT \div 2,
      MAX_FILE_SIZE - MAX_CHAR_COUNT \div 2 + 1 }

\* Files of these sizes; a character takes four bytes at most.
SizedFiles ==
    UNION { { SizedFile(c, n - Len(c), w) :
                c \in { << "a" >>, << "a", LF, "b" >> },
                w \in { x \in SizeWides : x <= 3 * n } } : n \in SizeChars }
    \cup { File(<< "a", LF >>) }

InitSize ==
    /\ fs \in { [p \in AbsPaths |-> IF p = PathA THEN f ELSE File(<< "a", LF >>)] :
                f \in SizedFiles }
    /\ file_history = [p \in AbsPaths |-> << >>]
    /\ rule_files = TestRuleFiles
    /\ ignore_patterns = new(TestRuleFiles)
    /\ editor_model = FALSE
    /\ edits = [p \in AbsPaths |-> << >>]
    /\ edited = { }
    /\ last = NoCall
    /\ tasks = TasksIdle
    /\ sh = ShellIdle

\* One view of the file, whole or by a range.
ViewSized ==
    /\ last.op = "none"
    /\ \E range \in { << >>, << 1, -1 >>, << 2, 2 >> } : View(PathA, range)

SpecSize == InitSize /\ [][ViewSized]_vars

\* C25: a view of a regular file of more than 400*1024 bytes fails with
\* ExecutionError "too large" whatever its character count, and before the
\* content is read; of a file of at most 400*1024 bytes and more than 400,000
\* characters, with ExecutionError "too many characters"; a file within both
\* ceilings is rejected by neither check.
C25_TwoCeilings ==
    [][ LET f == fs[PathA]
            chars == f.elided + Len(f.content)
            bytes == chars + f.wide
        IN  /\ bytes > 400 * 1024 =>
                  /\ last'.result = "ExecutionError"
                  /\ last'.msg = "too_large"
                  /\ "read" \notin last'.access
            /\ (bytes <= 400 * 1024 /\ chars > 400000) =>
                  /\ last'.result = "ExecutionError"
                  /\ last'.msg = "too_many_characters"
            /\ (bytes <= 400 * 1024 /\ chars <= 400000) =>
                  last'.msg \notin { "too_large", "too_many_characters" } ]_vars

\* A file of 400,000 characters and 400*1024 + 1 bytes was refused as too large.
C25_Witness ==
    /\ last.op = "view"
    /\ last.msg = "too_large"
    /\ fs[PathA].elided + Len(fs[PathA].content) = 400000
    /\ fs[PathA].wide = 400 * 1024 - 400000 + 1

\* ------------------------------------------------ a temporary file that fails

\* bash after the drain, with an output on both sides of 100 lines and a
\* temporary file that answers anything.
InitSideFile ==
    /\ EditorIdle
    /\ \E n \in (LINE_LIMIT - MaxOver)..(LINE_LIMIT + MaxOver), crlf \in BOOLEAN,
          ended \in BOOLEAN, tmp \in TmpAnswers :
            sh = [Drained(0, GenText(n, crlf, ended)) EXCEPT !.tmp = tmp]

SpecSideFile == InitSideFile /\ [][BashReturn]_vars

\* C26: when the output has more than 100 lines and the temporary file cannot
\* be created, written or kept, the call returns ExecutionError; a cut view is
\* never returned without a file that holds the whole output.
C26_NoCutViewWithoutItsFile ==
    sh.pc = "returned" =>
        LET N == Len(lines(sh.combined_output))
        IN  /\ (N > 100 /\ sh.tmp # "ok") =>
                  /\ sh.result.kind = "ExecutionError"
                  /\ "final_output" \notin DOMAIN sh.result
                  /\ "user_output" \notin DOMAIN sh.result
            /\ sh.result.kind = "Ok" =>
                  IF N > 100
                  THEN /\ sh.result.user_output.marker = "..."
                       /\ sh.result.tmp_file = << sh.combined_output >>
                  ELSE sh.result.user_output = sh.combined_output

\* An output of 101 lines whose temporary file could not be written.
C26_Witness ==
    /\ sh.pc = "returned"
    /\ Len(lines(sh.combined_output)) = 101
    /\ sh.tmp = "write_failed"
    /\ sh.result.kind = "ExecutionError"

\* --------------------------------------------------- the history of the edits

\* The call just made passed the gate and was carried out by the literal path
\* of str_replace.
LiteralReplaceDone ==
    /\ last'.op = "str_replace"
    /\ last'.gate = "pass"
    /\ last'.result = "Ok"
    /\ last'.msg = "edited_snippet"

InsertDone ==
    /\ last'.op = "insert"
    /\ last'.gate = "pass"
    /\ last'.result = "Ok"

\* C27 as the specification states it: a successful literal str_replace and a
\* successful insert push one history entry for the path, the content of the
\* file before the edit.
C27_AsStated ==
    [][ (LiteralReplaceDone \/ InsertDone) =>
        LET p == Target(last')
        IN  file_history'[p] = Append(file_history[p], fs[p].content) ]_vars

\* C28 as the specification states it: an insert refused because insert_line
\* is beyond the last line leaves the history of the path as it was.
C28_AsStated ==
    [][ ( /\ last'.op = "insert"
          /\ last'.gate = "pass"
          /\ fs[Target(last')].exists
          /\ last'.line > Len(lines(fs[Target(last')].content)) ) =>
        ( /\ last'.result = "InvalidParameters"
          /\ file_history' = file_history ) ]_vars

\* The call just made is a str_replace whose editor model failed.
ReplaceAfterEditError ==
    /\ last'.op = "str_replace"
    /\ last'.gate = "pass"
    /\ fs[Target(last')].exists
    /\ editor_model
    /\ ~last'.edit.ok

\* C29 as the specification states it: a str_replace whose editor model fails
\* pushes one history entry at most.
C29_AsStated ==
    [][ ReplaceAfterEditError =>
        Len(file_history'[Target(last')]) <= Len(file_history[Target(last')]) + 1 ]_vars

\* C30: when the editor model fails its failure is not what the caller gets:
\* the content of the file and the result or error are those of the literal
\* replacement of old_str by new_str in the same file with no editor model,
\* the refusals for no match and for several matches included.
C30_EditErrorIsTheLiteralReplace ==
    [][ ReplaceAfterEditError =>
        LET p == Target(last')
            literal == text_editor_replace(fs[p], file_history[p], last'.old, last'.new,
                                           FALSE, EditErr)
        IN  /\ last'.result = literal.result
            /\ last'.msg = literal.msg
            /\ last'.out = literal.out
            /\ fs'[p] = literal.file
            /\ \A q \in AbsPaths \ { p } : fs'[q] = fs[q] ]_vars

\* The editor model failed and the only "a" of the file was replaced.
C30_Witness ==
    /\ last.op = "str_replace"
    /\ editor_model
    /\ ~last.edit.ok
    /\ last.result = "Ok"
    /\ last.old = << "a" >>
    /\ fs[PathA] = File(<< "b", LF >>)

\* ------------------------------------------------ an editor model that answers

\* The call just made is a str_replace on an existing file the gate lets
\* through, which the editor model answered.
ReplaceByEditorModel ==
    /\ last'.op = "str_replace"
    /\ last'.gate = "pass"
    /\ fs[Target(last')].exists
    /\ editor_model
    /\ last'.edit.ok

\* An undo_edit of the path right after a str_replace the editor model carried
\* out.
UndoRightAfterEditorModel ==
    /\ last.op = "str_replace"
    /\ last.gate = "pass"
    /\ last.result = "Ok"
    /\ last.msg = "edited"
    /\ last'.op = "undo_edit"
    /\ last'.gate = "pass"
    /\ Target(last') = Target(last)

C32_BothStreamsEndFirst ==
    [][ /\ \A s \in Streams :
              /\ sh.done[s] =>
                    /\ sh'.done[s]
                    /\ sh'.pipe[s] = sh.pipe[s]
                    /\ sh'.rbuf[s] = sh.rbuf[s]
                    /\ sh'.buf[s] = sh.buf[s]
              /\ (~sh.done[s] /\ sh'.done[s]) =>
                    \A t \in Streams \ { s } : sh'.done[t] = sh.done[t]
        /\ sh'.drain_pc = "finished" => \A s \in Streams : sh'.done[s]
        /\ sh'.pc = "returned" =>
              /\ sh'.drain_pc = "finished"
              /\ sh'.child = "exited"
              /\ \A s \in Streams : sh'.done[s] ]_vars

\* The call has returned an output the drain loop put together.
C32_Witness ==
    /\ sh.pc = "returned"
    /\ sh.result.kind = "Ok"
    /\ sh.combined_output # << >>
    /\ \A s \in Streams : sh.done[s]

\* ------------------------------------------------- the lines of the two streams

\* The lines of stream s among the first n lines pushed, one after another.
RECURSIVE PushedOf(_, _, _)
PushedOf(pushed, s, n) ==
    IF n = 0 THEN << >>
    ELSE PushedOf(pushed, s, n - 1)
         \o (IF pushed[n].stream = s THEN pushed[n].line ELSE << >>)

\* C33 as the specification states it: whatever the interleaving, when the
\* drain loop has completed the combined output holds what each stream
\* produced, once and in the order the stream produced it.
C33_AsStated ==
    sh.drain_pc = "finished" =>
        \A s \in Streams : PushedOf(sh.pushed, s, Len(sh.pushed)) = sh.wrote[s]

\* ------------------------------------------------------- a command of no token

\* C37 as the specification states it: whatever the command string, the empty
\* one and one of white space included, the scan of its tokens does not abort
\* the call: bash goes on to a result or to an error it returns.
C37_AsStated == sh.pc # "panicked"

\* ----------------------------------------------------- the snippet of an insert

\* C39 as the specification states it: in the snippet of a successful insert
\* the number before each line is the position of the line in the file as it
\* now is, counted from 1 as view counts, and the inserted line is in the
\* snippet.
C39_AsStated ==
    [][ InsertDone =>
        LET now == lines(fs'[Target(last')].content)
            snippet == last'.out
        IN  /\ \A i \in 1..Len(snippet) :
                  /\ snippet[i].n \in 1..Len(now)
                  /\ now[snippet[i].n] = snippet[i].line
            /\ \E i \in 1..Len(snippet) :
                  /\ snippet[i].n = last'.line + 1
                  /\ snippet[i].line = last'.new ]_vars

\* ------------------------------------------------------- a write that fails

\* An edit or an undo_edit of PathA, during which the write may fail; the run
\* ends with the first write that fails.
EditWithWrite(write_fails) ==
    /\ last.msg # "write_failed"
    /\ \E command \in { "str_replace", "insert", "undo_edit" },
          old_str \in OldStrs, insert_line \in InsertLineNos, edit \in Answers :
            TextEditor(command, PathA,
                       [NoArgs EXCEPT !.old = old_str, !.new = << "b" >>,
                                      !.line = insert_line, !.edit = edit,
                                      !.write_fails = write_fails])

NextFailing == \E write_fails \in BOOLEAN : EditWithWrite(write_fails)

SpecFailing == Init /\ [][NextFailing]_vars

\* C38 as the specification states it: when the write of the file fails in
\* str_replace, insert or undo_edit, the call returns ExecutionError, the file
\* is unchanged and the history of the path is what it was before the call.
C38_AsStated ==
    [][ ( /\ last'.op \in { "str_replace", "insert", "undo_edit" }
          /\ last'.msg = "write_failed" ) =>
        ( /\ last'.result = "ExecutionError"
          /\ fs' = fs
          /\ file_history' = file_history ) ]_vars

\* ---------------------------------------------------------- two paths to edit

\* No ignore file at all: the defaults only, which let both paths through.
NoRuleFiles == [global |-> Absent, local |-> Absent, gitignore |-> Absent]

\* Two files to edit, the second one marked by an "x" that no edit of the
\* model puts in or takes out.
InitPaths ==
    /\ fs = [p \in AbsPaths |-> IF p = PathA THEN File(<< "a", LF >>)
                                ELSE File(<< "x", LF >>)]
    /\ file_history = [p \in AbsPaths |-> << >>]
    /\ rule_files = NoRuleFiles
    /\ ignore_patterns = new(NoRuleFiles)
    /\ editor_model = FALSE
    /\ edits = [p \in AbsPaths |-> << >>]
    /\ edited = { }
    /\ last = NoCall
    /\ tasks = TasksIdle
    /\ sh = ShellIdle

\* Any of the five commands on either path or on a relative one; a write to
\* the second file keeps its mark.
EditPaths ==
    \E path_str \in { PathA, PathSecret, PathRel } :
        \/ View(path_str, << >>)
        \/ Write(path_str, IF path_str = PathSecret THEN << "x" >> ELSE << "b" >>)
        \/ StrReplace(path_str, << "a" >>, << "b" >>, EditErr)
        \/ Insert(path_str, 0, << "b" >>)
        \/ UndoEdit(path_str)

SpecPaths == InitPaths /\ [][EditPaths]_vars

Marked(text) == \E i \in 1..Len(text) : text[i] = "x"

\* C40: a text_editor call on a path, whether it succeeds or fails, leaves the
\* file and the history of every other path as they were; the entries of a
\* path's history are contents of that path, and they are what undo_edit
\* restores.
C40_HistoryIsPerPath ==
    [][ /\ \A q \in AbsPaths :
              (last'.gate # "pass" \/ q # Target(last')) =>
                    /\ fs'[q] = fs[q]
                    /\ file_history'[q] = file_history[q]
        /\ \A q \in AbsPaths :
              \A i \in 1..Len(file_history'[q]) :
                    Marked(file_history'[q][i]) <=> q = PathSecret
        /\ (last'.op = "undo_edit" /\ last'.result = "Ok") =>
              LET p == Target(last')
              IN  /\ Len(file_history[p]) > 0
                  /\ fs'[p] = File(file_history[p][Len(file_history[p])])
                  /\ (Marked(fs'[p].content) <=> p = PathSecret) ]_vars

\* Both paths were edited, and the edit of the second was undone with the
\* history of the first in place.
C40_Witness ==
    /\ last.op = "undo_edit"
    /\ last.result = "Ok"
    /\ Target(last) = PathSecret
    /\ fs[PathSecret] = File(<< "x", LF >>)
    /\ file_history[PathA] # << >>

\* ------------------------------------------- invocations running at once

\* call_tool answers each call with a future that owns a clone of the router
\* (this.text_editor(arguments).await); the clone's file_history is the same
\* Arc, so every invocation works on the one map file_history and on the one
\* mutex. The steps below are those of text_editor past its gate, for a path
\* that is absolute and not ignored and a router without an editor model: each
\* call of std::fs and each use of the lock is a step of its own.

\* The calls of the invocations: an edit of either file, an insert past the
\* end, an undo, a write.
TaskCalls ==
    { [command |-> "str_replace", path |-> PathA,
       a |-> [NoArgs EXCEPT !.old = << "a" >>, !.new = << "b" >>]],
      [command |-> "insert", path |-> PathA,
       a |-> [NoArgs EXCEPT !.line = 0, !.new = << "b" >>]],
      [command |-> "insert", path |-> PathA,
       a |-> [NoArgs EXCEPT !.line = 3, !.new = << "b" >>]],
      [command |-> "undo_edit", path |-> PathA, a |-> NoArgs],
      [command |-> "write", path |-> PathA, a |-> [NoArgs EXCEPT !.new = << "b" >>]],
      [command |-> "str_replace", path |-> PathSecret,
       a |-> [NoArgs EXCEPT !.old = << "x" >>, !.new = << "x", "x" >>]],
      [command |-> "insert", path |-> PathSecret,
       a |-> [NoArgs EXCEPT !.line = 0, !.new = << "x" >>]],
      [command |-> "undo_edit", path |-> PathSecret, a |-> NoArgs] }

\* The first step of a command.
first_step(command) ==
    CASE command = "str_replace" -> "replace_read"
      [] command = "insert" -> "insert_read"
      [] command = "undo_edit" -> "undo_lock"
      [] command = "write" -> "write_write"
      [] OTHER -> "done"

\* Two files, one of them marked, each with no entry or with one entry of its
\* own in the history; two invocations, any two calls.
InitTasks ==
    /\ fs = [p \in AbsPaths |-> IF p = PathA THEN File(<< "a", LF >>)
                                ELSE File(<< "x", LF >>)]
    /\ \E ha \in { << >>, << << "b", "a", LF >> >> },
          hs \in { << >>, << << "x", "x", "x", LF >> >> },
          call \in [Tasks -> TaskCalls] :
            /\ file_history = [p \in AbsPaths |-> IF p = PathA THEN ha ELSE hs]
            /\ tasks = [TasksIdle EXCEPT
                          !.call = call,
                          !.pc = [t \in Tasks |-> first_step(call[t].command)],
                          !.base = [p \in AbsPaths |-> IF p = PathA THEN Len(ha)
                                                       ELSE Len(hs)]]
    /\ rule_files = NoRuleFiles
    /\ ignore_patterns = new(NoRuleFiles)
    /\ editor_model = FALSE
    /\ edits = [p \in AbsPaths |-> << >>]
    /\ edited = { }
    /\ last = NoCall
    /\ sh = ShellIdle

\* An invocation that has taken a step and has not returned.
Running(t) ==
    tasks.pc[t] \notin { first_step(tasks.call[t].command), "done" }

\* The first step of t is taken while another invocation is running.
Overlaps(t) == tasks.overlap \/ \E u \in Tasks \ { t } : Running(u)

\* A lock that is taken whoever holds it.
lock_free_always(mutex) == TRUE

\* self.file_history.lock(): the lock is taken when nobody holds it.
lock_free(mutex) == mutex = None

\* The steps that read or write a file.
FileSteps ==
    { "replace_read", "insert_read", "save_read", "replace_write", "insert_write",
      "undo_write", "write_write" }

\* text_editor_replace, up to save_file_history: path.exists(), read_to_string
\* and the count of the matches.
ReplaceRead(t) ==
    LET c == tasks.call[t]
        file == fs[c.path]
        o == text_editor_replace(file, << >>, c.a.old, c.a.new, FALSE, c.a.edit)
    IN  /\ tasks.pc[t] = "replace_read"
        /\ tasks' = [tasks EXCEPT
                       !.pc[t] = IF o.result = "Ok" THEN "save_lock" ELSE "done",
                       !.seen[t] = file,
                       !.result[t] = IF o.result = "Ok" THEN "none" ELSE o.result,
                       !.overlap = Overlaps(t)]
        /\ UNCHANGED << editor_vars, sh >>

\* text_editor_insert, up to save_file_history: path.exists() and
\* read_to_string.
InsertRead(t) ==
    LET c == tasks.call[t]
        file == fs[c.path]
    IN  /\ tasks.pc[t] = "insert_read"
        /\ tasks' = [tasks EXCEPT
                       !.pc[t] = IF exists_on_disk(file) THEN "save_lock" ELSE "done",
                       !.seen[t] = file,
                       !.result[t] = IF exists_on_disk(file) THEN "none"
                                     ELSE "InvalidParameters",
                       !.overlap = Overlaps(t)]
        /\ UNCHANGED << editor_vars, sh >>

\* save_file_history: the lock is taken.
SaveLock(t) ==
    /\ tasks.pc[t] = "save_lock"
    /\ lock_free(tasks.mutex)
    /\ tasks' = [tasks EXCEPT !.pc[t] = "save_read", !.mutex = Some(t)]
    /\ UNCHANGED << editor_vars, sh >>

\* save_file_history: the file is read and the entry of the path is taken.
SaveRead(t) ==
    LET c == tasks.call[t]
    IN  /\ tasks.pc[t] = "save_read"
        /\ tasks' = [tasks EXCEPT
                       !.pc[t] = "save_push",
                       !.stack[t] = save_file_history(fs[c.path], file_history[c.path])]
        /\ UNCHANGED << editor_vars, sh >>

\* save_file_history: the content is pushed, and the guard is dropped at the
\* end of the function.
SavePush(t) ==
    LET c == tasks.call[t]
    IN  /\ tasks.pc[t] = "save_push"
        /\ file_history' = entry(file_history, c.path, tasks.stack[t])
        /\ tasks' = [tasks EXCEPT
                       !.pc[t] = IF c.command = "insert" THEN "insert_write"
                                 ELSE "replace_write",
                       !.mutex = None,
                       !.pushes[c.path] = @ + 1]
        /\ UNCHANGED << fs, rule_files, ignore_patterns, editor_model, last, edits,
                       edited, sh >>

\* An edit as the list of the writes keeps it.
EditWritten(t, before, from, after) ==
    [task |-> t, path |-> tasks.call[t].path, before |-> before, from |-> from,
     after |-> after]

\* text_editor_replace: the content read at the start, with the replacement
\* made, is written.
ReplaceWrite(t) ==
    LET c == tasks.call[t]
        o == text_editor_replace(tasks.seen[t], << >>, c.a.old, c.a.new, FALSE, c.a.edit)
    IN  /\ tasks.pc[t] = "replace_write"
        /\ fs' = [fs EXCEPT ![c.path] = o.file]
        /\ tasks' = [tasks EXCEPT
                       !.pc[t] = "done",
                       !.result[t] = o.result,
                       !.writes = Append(@, EditWritten(t, fs[c.path], tasks.seen[t], o.file))]
        /\ UNCHANGED << file_history, rule_files, ignore_patterns, editor_model, last,
                       edits, edited, sh >>

\* text_editor_insert: insert_line is checked against the lines read at the
\* start, and the new content is written.
InsertWrite(t) ==
    LET c == tasks.call[t]
        o == text_editor_insert(tasks.seen[t], << >>, c.a.line, c.a.new)
    IN  /\ tasks.pc[t] = "insert_write"
        /\ fs' = [fs EXCEPT ![c.path] = IF o.result = "Ok" THEN o.file ELSE @]
        /\ tasks' = [tasks EXCEPT
                       !.pc[t] = "done",
                       !.result[t] = o.result,
                       !.writes = IF o.result = "Ok"
                                  THEN Append(@, EditWritten(t, fs[c.path], tasks.seen[t],
                                                         o.file))
                                  ELSE @]
        /\ UNCHANGED << file_history, rule_files, ignore_patterns, editor_model, last,
                       edits, edited, sh >>

\* text_editor_undo: the lock is taken and the last entry is popped; with no
\* entry the invocation returns, and the guard is dropped.
UndoLock(t) ==
    LET c == tasks.call[t]
        o == text_editor_undo(fs[c.path], file_history[c.path])
    IN  /\ tasks.pc[t] = "undo_lock"
        /\ lock_free(tasks.mutex)
        /\ file_history' = entry(file_history, c.path, o.hist)
        /\ tasks' = [tasks EXCEPT
                       !.pc[t] = IF o.result = "Ok" THEN "undo_write" ELSE "done",
                       !.seen[t] = o.file,
                       !.result[t] = IF o.result = "Ok" THEN "none" ELSE o.result,
                       !.mutex = IF o.result = "Ok" THEN Some(t) ELSE None,
                       !.pops[c.path] = IF o.result = "Ok" THEN @ + 1 ELSE @,
                       !.overlap = Overlaps(t)]
        /\ UNCHANGED << fs, rule_files, ignore_patterns, editor_model, last, edits,
                       edited, sh >>

\* text_editor_undo: the entry popped is written, and the guard is dropped at
\* the end of the function.
UndoWrite(t) ==
    LET c == tasks.call[t]
    IN  /\ tasks.pc[t] = "undo_write"
        /\ fs' = [fs EXCEPT ![c.path] = tasks.seen[t]]
        /\ tasks' = [tasks EXCEPT !.pc[t] = "done", !.result[t] = "Ok", !.mutex = None]
        /\ UNCHANGED << file_history, rule_files, ignore_patterns, editor_model, last,
                       edits, edited, sh >>

\* text_editor_write: the text is written.
WriteWrite(t) ==
    LET c == tasks.call[t]
        o == text_editor_write(fs[c.path], << >>, c.a.new)
    IN  /\ tasks.pc[t] = "write_write"
        /\ fs' = [fs EXCEPT ![c.path] = o.file]
        /\ tasks' = [tasks EXCEPT !.pc[t] = "done", !.result[t] = o.result,
                                  !.overlap = Overlaps(t)]
        /\ UNCHANGED << file_history, rule_files, ignore_patterns, editor_model, last,
                       edits, edited, sh >>

NextTasks ==
    \E t \in Tasks :
        \/ ReplaceRead(t)
        \/ InsertRead(t)
        \/ SaveLock(t)
        \/ SaveRead(t)
        \/ SavePush(t)
        \/ ReplaceWrite(t)
        \/ InsertWrite(t)
        \/ UndoLock(t)
        \/ UndoWrite(t)
        \/ WriteWrite(t)

SpecTasks == InitTasks /\ [][NextTasks]_vars

\* C34: an invocation that is at a step that reads or writes a file does not
\* hold the lock of the history.
C34_NoFileStepUnderTheLock ==
    \A t \in Tasks : tasks.pc[t] \in FileSteps => tasks.mutex # Some(t)

\* Every invocation has returned.
AllDone == \A t \in Tasks : tasks.pc[t] = "done"

\* The two invocations are edits of one path, and both have written.
TwoEditsWritten ==
    /\ AllDone
    /\ \A t \in Tasks : tasks.call[t].command \in { "str_replace", "insert" }
    /\ \A t, u \in Tasks : tasks.call[t].path = tasks.call[u].path
    /\ Len(tasks.writes) = 2

\* What undo_edit would restore on the path of the last write.
Restorable == LET hist == file_history[tasks.writes[2].path] IN hist[Len(hist)]

C36_EveryPushAndPopCounts ==
    \A p \in AbsPaths :
        /\ Len(file_history[p]) = tasks.base[p] + tasks.pushes[p] - tasks.pops[p]
        /\ \A i \in 1..Len(file_history[p]) :
              Marked(file_history[p][i]) <=> p = PathSecret

\* Two invocations that overlapped have each pushed on the stack of one path.
C36_Witness ==
    /\ AllDone
    /\ tasks.overlap
    /\ \E p \in AbsPaths : tasks.pushes[p] = 2 /\ Len(file_history[p]) = tasks.base[p] + 2

====
